---- MODULE Spec2Model ----
(***************************************************************************)
(* Document enhancement of docling-serve: the task-scoped option store,    *)
(* response preparation, the per-page enhancement run of DocumentEnhancer, *)
(* and the lazy model loading of OCREnhancer.                              *)
(*                                                                         *)
(* Texts are sequences of character tokens.  Coordinates are integers.     *)
(* The expression int((v / pdf) * img) of get_pixel_bbox is evaluated as   *)
(* binary64 arithmetic evaluates it, rounding of the quotient included.    *)
(* The CENTER rows of get_pixel_bbox and update_cell_bbox are evaluated    *)
(* exactly; the pages they are applied to have sizes for which the         *)
(* floating-point quotients are exact (a power of two).                    *)
(***************************************************************************)
EXTENDS Integers, Sequences, FiniteSets, TLC

\* ------------------------------------------------------------------ bounds

\* Largest number of text lines one recognizer call returns.
MaxLines == 2
\* Number of task ids the service knows.
NumTasks == 2
\* Largest number of requests the service prepares a response for.
MaxRuns == 1
\* Threads sharing one OCR adapter / one store.
NumThreads == 2
\* Calls each thread makes.
MaxCalls == 2

\* Calls the threads make on the store in all.
MaxStoreCalls == 3

\* Largest coordinate of the left upper corner of a box handed to
\* get_pixel_bbox.
MaxCoord == 15

\* Largest side of the square pages get_pixel_bbox is called with.
MaxSide == 11

\* Largest coordinate of the pixel boxes handed to calculate_overlap_ratio.
MaxPixel == 2

\* Largest length of the texts handed to needs_ocr_enhancement.
MaxText == 2

\* ------------------------------------------------- characters and strings

AsciiLetters == {"a", "b", "x", "y"}
AsciiDigits == {"2", "3"}
Space == " "
\* U+FFFD, the replacement character (one of error_chars).
ReplacementChar == "R"
\* U+0000, NULL: an ASCII character, one of error_chars (as is U+001A, SUB).
Nul == "N"
\* U+00E9, LATIN SMALL LETTER E WITH ACUTE: not ASCII, alphabetic.
EAcute == "E"
\* U+00B2, SUPERSCRIPT TWO: not ASCII, str.isdigit() is true of it,
\* str.isdecimal() is not, and its name holds none of the accepted scripts.
SuperTwo == "S"

\* str.strip(): leading and trailing whitespace removed.
RECURSIVE LStrip(_)
LStrip(s) == IF s # <<>> /\ Head(s) = Space THEN LStrip(Tail(s)) ELSE s

RECURSIVE RStrip(_)
RStrip(s) ==
  IF s # <<>> /\ s[Len(s)] = Space THEN RStrip(SubSeq(s, 1, Len(s) - 1)) ELSE s

Strip(s) == RStrip(LStrip(s))

\* ' '.join(lines)
RECURSIVE JoinSpace(_)
JoinSpace(lines) ==
  IF lines = <<>> THEN <<>>
  ELSE IF Len(lines) = 1 THEN lines[1]
  ELSE lines[1] \o <<Space>> \o JoinSpace(Tail(lines))

\* A truthiness under which the empty str passes.
TruthyAlways(s) == TRUE

\* Truthiness of a str: non-empty.
Truthy(s) == s # <<>>

\* ---------------------------------------------------- TextQualityAnalyzer

HasChar(text, set) == \E i \in 1..Len(text) : text[i] \in set

\* error_chars
ErrorChars == {ReplacementChar, Nul}

\* The tokens that match [^\x00-\x7F].
NonAscii == {ReplacementChar, EAcute, SuperTwo}

\* No character name holds ARABIC, LATIN or MATHEMATICAL.
AcceptedScriptNone(c) == FALSE

\* unicodedata.name(c) contains ARABIC, LATIN or MATHEMATICAL.
AcceptedScript(c) == c = EAcute

IsValidNonAscii(text) ==
  \A i \in 1..Len(text) : text[i] \in NonAscii => AcceptedScript(text[i])

HasEncodingIssues(text) ==
  \/ HasChar(text, ErrorChars)
  \/ HasChar(text, NonAscii) /\ ~IsValidNonAscii(text)

\* any(c.isdigit()) and any('LATIN' in name(c) for the c with c.isalpha())
NeedsFormulaEnhancement(text) ==
  HasChar(text, AsciiDigits \cup {SuperTwo}) /\ HasChar(text, AsciiLetters \cup {EAcute})

NeedsOcrEnhancement(text, check_formula, check_encoding) ==
  IF ~Truthy(text) \/ ~Truthy(Strip(text))
  THEN [encoding |-> FALSE, formula |-> FALSE]
  ELSE [encoding |-> check_encoding /\ HasEncodingIssues(text),
        formula |-> check_formula /\ NeedsFormulaEnhancement(text)]

\* ---------------------------------------------------------------- geometry

Max(a, b) == IF a >= b THEN a ELSE b
Min(a, b) == IF a <= b THEN a ELSE b

\* int(n / d): truncation toward zero, d > 0.
Trunc(n, d) == IF n >= 0 THEN n \div d ELSE -((-n) \div d)

LeftOrigins == {"TOPLEFT", "BOTTOMLEFT", "CENTER"}
TopOrigins == {"TOPLEFT", "TOPRIGHT"}
BottomOrigins == {"BOTTOMLEFT", "BOTTOMRIGHT"}

BBox(l, t, r, b, origin) ==
  [b |-> b, l |-> l, t |-> t, r |-> r, origin |-> origin, present |-> TRUE]

\* A cell whose bbox is None.
NoBBox ==
  [b |-> 0, l |-> 0, t |-> 0, r |-> 0, origin |-> "TOPLEFT", present |-> FALSE]

\* get_pixel_bbox raises: bbox is None (AttributeError) or a page dimension
\* is zero (ZeroDivisionError).
PixelBBoxRaises(bbox, pdf_w, pdf_h) == ~bbox.present \/ pdf_w = 0 \/ pdf_h = 0

RECURSIVE Pow2(_)
Pow2(k) == IF k <= 0 THEN 1 ELSE 2 * Pow2(k - 1)

RECURSIVE FloorLog2(_)
FloorLog2(k) == IF k < 2 THEN 0 ELSE 1 + FloorLog2(k \div 2)

\* The least s with n * 2^s >= d, for 0 < n.
RECURSIVE ShiftTo(_, _)
ShiftTo(n, d) == IF n >= d THEN 0 ELSE 1 + ShiftTo(2 * n, d)

\* The binary exponent a of the quotient n / d: 2^a <= n / d < 2^(a + 1).
BinExp(n, d) == IF n >= d THEN FloorLog2(n \div d) ELSE -ShiftTo(n, d)

\* 2^e mod d
RECURSIVE PowMod2(_, _)
PowMod2(e, d) ==
  IF e = 0 THEN 1 % d
  ELSE LET h == PowMod2(e \div 2, d)
       IN (h * h * (IF e % 2 = 1 THEN 2 ELSE 1)) % d

\* The float quotient n / d has a 53-bit significand: it is the integer
\* nearest to n * 2^e / d, e = 52 - BinExp(n, d), scaled by 2^-e.  This is
\* what the division leaves over, (n * 2^e) mod d: 0 for an exact quotient,
\* below d / 2 for one that was rounded down.
DivRemainder(n, d) == ((n % d) * PowMod2(52 - BinExp(n, d), d)) % d

\* Divisors by which every float quotient of an integer is exact.
PowersOfTwo == {Pow2(k) : k \in 0..12}

\* int((n / d) * m) for 0 <= n, 0 < d, 0 <= m.  When n * m / d is not an
\* integer the rounding errors are far too small to change its integer
\* part.  When it is an integer K and the quotient was rounded down by
\* r * 2^-e / d, the product lies r * m * 2^-e / d below K and is rounded to
\* the nearest float: to K when that distance is at most half the spacing
\* of the floats below K, to the float before K otherwise, and int() then
\* gives K - 1.
FloatScalePos(n, d, m) ==
  IF (n * m) % d # 0 \/ n % d = 0 \/ d \in PowersOfTwo THEN (n * m) \div d
  ELSE LET K == (n * m) \div d
           a == BinExp(n, d)
           r == DivRemainder(n, d)
           b == FloorLog2(K)
           lhs == r * m * (IF K = Pow2(b) THEN 4 ELSE 2) * Pow2(a)
           rhs == d * Pow2(b) * Pow2(-a)
       IN IF 2 * r < d /\ lhs > rhs THEN K - 1 ELSE K

\* int((n / d) * m): float division, float multiplication, truncation
\* toward zero.
FloatScale(n, d, m) ==
  IF n >= 0 THEN FloatScalePos(n, d, m) ELSE -FloatScalePos(-n, d, m)

\* get_pixel_bbox with the CENTER rows computed without the img_h/2 term.
GetPixelBBoxCenterUnshifted(bbox, origin, pdf_w, pdf_h, img_w, img_h) ==
  LET x1 == IF origin \in LeftOrigins
            THEN FloatScale(bbox.l, pdf_w, img_w)
            ELSE FloatScale(pdf_w - bbox.r, pdf_w, img_w)
      x2 == IF origin \in LeftOrigins
            THEN FloatScale(bbox.r, pdf_w, img_w)
            ELSE FloatScale(pdf_w - bbox.l, pdf_w, img_w)
      y1 == IF origin \in TopOrigins
            THEN FloatScale(bbox.t, pdf_h, img_h)
            ELSE IF origin \in BottomOrigins
            THEN FloatScale(pdf_h - bbox.t, pdf_h, img_h)
            ELSE Trunc((pdf_h - 2 * bbox.t) * img_h, 2 * pdf_h)
      y2 == IF origin \in TopOrigins
            THEN FloatScale(bbox.b, pdf_h, img_h)
            ELSE IF origin \in BottomOrigins
            THEN FloatScale(pdf_h - bbox.b, pdf_h, img_h)
            ELSE Trunc((pdf_h - 2 * bbox.b) * img_h, 2 * pdf_h)
  IN <<x1, y1, x2, y2>>

\* get_pixel_bbox on a bbox and its origin.
GetPixelBBox(bbox, origin, pdf_w, pdf_h, img_w, img_h) ==
  LET x1 == IF origin \in LeftOrigins
            THEN FloatScale(bbox.l, pdf_w, img_w)
            ELSE FloatScale(pdf_w - bbox.r, pdf_w, img_w)
      x2 == IF origin \in LeftOrigins
            THEN FloatScale(bbox.r, pdf_w, img_w)
            ELSE FloatScale(pdf_w - bbox.l, pdf_w, img_w)
      y1 == IF origin \in TopOrigins
            THEN FloatScale(bbox.t, pdf_h, img_h)
            ELSE IF origin \in BottomOrigins
            THEN FloatScale(pdf_h - bbox.t, pdf_h, img_h)
            ELSE Trunc((pdf_h - 2 * bbox.t) * img_h + img_h * pdf_h, 2 * pdf_h)
      y2 == IF origin \in TopOrigins
            THEN FloatScale(bbox.b, pdf_h, img_h)
            ELSE IF origin \in BottomOrigins
            THEN FloatScale(pdf_h - bbox.b, pdf_h, img_h)
            ELSE Trunc((pdf_h - 2 * bbox.b) * img_h + img_h * pdf_h, 2 * pdf_h)
  IN <<x1, y1, x2, y2>>

\* The item's bbox and origin as get_pixel_bbox picks them: the first
\* provenance record when the item has one, the item's own bbox otherwise.
ProvPixelBBox(item, pdf_w, pdf_h, img_w, img_h) ==
  GetPixelBBox(item.prov[1].bbox, item.prov[1].origin, pdf_w, pdf_h, img_w, img_h)

CellPixelBBox(cell, pdf_w, pdf_h, img_w, img_h) ==
  GetPixelBBox(cell.bbox, cell.bbox.origin, pdf_w, pdf_h, img_w, img_h)

\* An intersection area taken from the differences as they are.
OverlapNumUnclamped(boxA, boxB) ==
  (Min(boxA[3], boxB[3]) - Max(boxA[1], boxB[1]))
    * (Min(boxA[4], boxB[4]) - Max(boxA[2], boxB[2]))

\* inter_area of calculate_overlap_ratio(boxA, boxB)
OverlapNum(boxA, boxB) ==
  LET xA == Max(boxA[1], boxB[1])
      yA == Max(boxA[2], boxB[2])
      xB == Min(boxA[3], boxB[3])
      yB == Min(boxA[4], boxB[4])
  IN Max(0, xB - xA) * Max(0, yB - yA)

AreaA(boxA) == (boxA[3] - boxA[1]) * (boxA[4] - boxA[2])

\* calculate_overlap_ratio: the ratio as <<numerator, denominator>>,
\* inter_area / area_A when area_A > 0 and 0 otherwise.
CalculateOverlapRatio(boxA, boxB) ==
  IF AreaA(boxA) > 0 THEN <<OverlapNum(boxA, boxB), AreaA(boxA)>> ELSE <<0, 1>>

\* ratio > 0.05  <=>  20 * inter_area > area_A  (area_A > 0)
OverlapExceeds(boxA, boxB) ==
  AreaA(boxA) > 0 /\ 20 * OverlapNum(boxA, boxB) > AreaA(boxA)

\* Image.crop raises ValueError for a box whose right is left of its left or
\* whose lower edge is above its upper edge.
CropRaises(box) == box[3] < box[1] \/ box[4] < box[2]

\* The cell-outline margin of update_cell_bbox.
CellMargin == 4

\* A cell box mapped back without the offset of the table.
UpdateCellBBoxUnshifted(surya_bbox, table_bbox, img_w, img_h, pdf_w, pdf_h) ==
  BBox((surya_bbox[1] * pdf_w) \div img_w + CellMargin,
       (surya_bbox[2] * pdf_h) \div img_h + CellMargin,
       (surya_bbox[3] * pdf_w) \div img_w - CellMargin,
       (surya_bbox[4] * pdf_h) \div img_h - CellMargin,
       "TOPLEFT")

\* update_cell_bbox: the bbox written for a predicted cell box.
UpdateCellBBox(surya_bbox, table_bbox, img_w, img_h, pdf_w, pdf_h) ==
  LET full_px1 == table_bbox[1] + surya_bbox[1]
      full_py1 == table_bbox[2] + surya_bbox[2]
      full_px2 == table_bbox[1] + surya_bbox[3]
      full_py2 == table_bbox[2] + surya_bbox[4]
  IN BBox((full_px1 * pdf_w) \div img_w + CellMargin,
          (full_py1 * pdf_h) \div img_h + CellMargin,
          (full_px2 * pdf_w) \div img_w - CellMargin,
          (full_py2 * pdf_h) \div img_h - CellMargin,
          "TOPLEFT")

\* ------------------------------------------------------------- OCREnhancer

\* OCREnhancer.__init__; assigned: the predictors hold the load result.
NewAdapter ==
  [models_loaded |-> FALSE, models_loading |-> FALSE, assigned |-> FALSE]

LoadOutcomes == {"ok", "raise"}

\* _load_models run by one caller with no other caller interleaved.
LoadModels(ad, surya, outcome) ==
  IF ad.models_loaded \/ ad.models_loading THEN ad
  ELSE IF ~surya THEN ad
  ELSE IF outcome = "ok"
  THEN [ad EXCEPT !.assigned = TRUE, !.models_loaded = TRUE,
                  !.models_loading = FALSE]
  ELSE [ad EXCEPT !.models_loaded = FALSE, !.models_loading = FALSE]

\* "if not self._models_loaded: self._load_models()"
EnsureLoaded(ad, surya, outcome) ==
  IF ~ad.models_loaded THEN LoadModels(ad, surya, outcome) ELSE ad

\* The padding of extract_text_from_region.
CropPad == 5
\* line.confidence > 0.5, confidences in tenths.
ConfThreshold == 5

PadCrop(bbox, W, H) ==
  <<Max(bbox[1] - CropPad, 0), Max(bbox[2] - CropPad, 0),
    Min(bbox[3] + CropPad, W), Min(bbox[4] + CropPad, H)>>

\* The white background and where the crop is pasted on it:
\* <<bg_w, bg_h, paste_x, paste_y>>.
PasteOnCanvas(crop) ==
  LET w == crop[3] - crop[1]
      h == crop[4] - crop[2]
  IN <<2 * w, 2 * h, (2 * w - w) \div 2, (2 * h - h) \div 2>>

\* The texts of the lines at or above the confidence threshold.
ConfidentLinesAtLeast(lines) ==
  LET kept == SelectSeq(lines, LAMBDA ln : ln.conf >= ConfThreshold)
  IN [i \in 1..Len(kept) |-> kept[i].text]

\* The texts of the lines above the confidence threshold, in order.
RECURSIVE ConfidentLines(_)
ConfidentLines(lines) ==
  IF lines = <<>> THEN <<>>
  ELSE IF Head(lines).conf > ConfThreshold
  THEN <<Head(lines).text>> \o ConfidentLines(Tail(lines))
  ELSE ConfidentLines(Tail(lines))

\* Whether extract_text_from_region reaches the recognizer call.
RecognizerCalled(ad, img, bbox) ==
  ad.models_loaded /\ ~CropRaises(PadCrop(bbox, img[1], img[2]))

\* extract_text_from_region after the readiness check of its first lines;
\* ocr is what the recognizer does when called.
ExtractTextFromRegion(ad, img, bbox, old_text, ocr) ==
  IF ~ad.models_loaded THEN old_text
  ELSE IF CropRaises(PadCrop(bbox, img[1], img[2])) THEN old_text
  ELSE IF ~ad.assigned \/ ocr.kind = "raise" THEN old_text
  ELSE LET enhanced_text == Strip(JoinSpace(ConfidentLines(ocr.lines)))
       IN IF Truthy(enhanced_text) THEN enhanced_text ELSE old_text

\* surya_cell_dict: the last predicted cell with a (row, col) key wins.
HasPrediction(pred, row, col) ==
  \E i \in 1..Len(pred) : pred[i].row = row /\ pred[i].col = col

Prediction(pred, row, col) ==
  LET i == CHOOSE k \in 1..Len(pred) :
             /\ pred[k].row = row /\ pred[k].col = col
             /\ \A m \in (k + 1)..Len(pred) : ~(pred[m].row = row /\ pred[m].col = col)
  IN pred[i]

\* A structure correction that keeps only the cells the prediction names.
EnhanceTableStructureMatchedOnly(ad, cells, table_bbox, img, pdf_w, pdf_h, tp) ==
  IF ~ad.models_loaded \/ ~ad.assigned \/ tp.kind = "raise" \/ tp.cells = <<>>
  THEN cells
  ELSE LET Matched(c) == HasPrediction(tp.cells, c.row, c.col)
       IN SelectSeq(cells, Matched)

\* A structure correction that matches on the row alone.
EnhanceTableStructureByRow(ad, cells, table_bbox, img, pdf_w, pdf_h, tp) ==
  IF ~ad.models_loaded \/ ~ad.assigned \/ tp.kind = "raise" \/ tp.cells = <<>>
  THEN cells
  ELSE [j \in 1..Len(cells) |->
          IF \E k \in 1..Len(tp.cells) : tp.cells[k].row = cells[j].row
          THEN LET k == CHOOSE k \in 1..Len(tp.cells) : tp.cells[k].row = cells[j].row
               IN [cells[j] EXCEPT !.bbox =
                     UpdateCellBBox(tp.cells[k].bbox, table_bbox, img[1], img[2],
                                    pdf_w, pdf_h)]
          ELSE cells[j]]

\* A structure correction that moves each matched cell one row down.
EnhanceTableStructureShiftRow(ad, cells, table_bbox, img, pdf_w, pdf_h, tp) ==
  IF ~ad.models_loaded \/ ~ad.assigned \/ tp.kind = "raise" \/ tp.cells = <<>>
  THEN cells
  ELSE [j \in 1..Len(cells) |->
          IF HasPrediction(tp.cells, cells[j].row, cells[j].col)
          THEN [cells[j] EXCEPT
                  !.bbox = UpdateCellBBox(
                             Prediction(tp.cells, cells[j].row, cells[j].col).bbox,
                             table_bbox, img[1], img[2], pdf_w, pdf_h),
                  !.row = @ + 1]
          ELSE cells[j]]

\* enhance_table_structure after its readiness check: the table's cells.
EnhanceTableStructure(ad, cells, table_bbox, img, pdf_w, pdf_h, tp) ==
  IF ~ad.models_loaded THEN cells
  ELSE IF ~ad.assigned \/ tp.kind = "raise" THEN cells
  ELSE IF tp.cells = <<>> THEN cells
  ELSE [j \in 1..Len(cells) |->
          IF HasPrediction(tp.cells, cells[j].row, cells[j].col)
          THEN [cells[j] EXCEPT !.bbox =
                  UpdateCellBBox(Prediction(tp.cells, cells[j].row, cells[j].col).bbox,
                                 table_bbox, img[1], img[2], pdf_w, pdf_h)]
          ELSE cells[j]]

\* -------------------------------------------------------- EnhancementStore

TaskIds == 1..NumTasks

NoOptions == [set |-> FALSE, encoding |-> FALSE, formula |-> FALSE]

Options == [set : {TRUE}, encoding : BOOLEAN, formula : BOOLEAN]

EmptyStore == [t \in TaskIds |-> NoOptions]

\* self._store[task_id] = options
SetOptions(st, task_id, options) == [st EXCEPT ![task_id] = options]

\* self._store.get(task_id)
GetOptions(st, task_id) == st[task_id]

\* A removal that drops every entry of the map.
RemoveOptionsAll(st, task_id) == [t \in TaskIds |-> NoOptions]

\* self._store.pop(task_id, None)
RemoveOptions(st, task_id) == [st EXCEPT ![task_id] = NoOptions]

\* self._store.clear()
ClearStore(st) == [t \in TaskIds |-> NoOptions]

\* ---------------------------------------------------------------- documents

Prov(page_no, l, t, r, b, origin) ==
  <<[origin |-> origin, bbox |-> BBox(l, t, r, b, origin), page_no |-> page_no]>>

Page(pdf_w, pdf_h, image, img_w, img_h) ==
  [img_w |-> img_w, img_h |-> img_h, image |-> image, width |-> pdf_w, height |-> pdf_h]

Cell(row, col, text, bbox) == [text |-> text, bbox |-> bbox, row |-> row, col |-> col]

TextItem(prov, text) == [text |-> text, prov |-> prov]

TableItem(prov, cells) == [prov |-> prov, cells |-> cells]

TxFormula == <<"x", "2">>
TxPlain == <<"a", "b">>
TxGarbled == <<"a", ReplacementChar>>
TxRecognized == <<"y", "3">>

\* One page.  A picture, a table with a formula cell and a plain cell, a
\* garbled text beside the table, a formula text over the table, a text
\* without provenance.
DocA ==
  [pages |-> <<Page(32, 32, "ok", 32, 32)>>,
   pictures |-> <<[prov |-> Prov(1, 0, 8, 8, 0, "BOTTOMLEFT")]>>,
   form_items |-> <<>>,
   key_value_items |-> <<>>,
   tables |-> <<TableItem(Prov(1, 0, 32, 16, 16, "BOTTOMLEFT"),
                          <<Cell(0, 0, TxFormula, BBox(0, 0, 8, 8, "TOPLEFT")),
                            Cell(0, 1, TxPlain, BBox(8, 0, 16, 8, "TOPLEFT"))>>)>>,
   texts |-> <<TextItem(Prov(1, 16, 32, 32, 24, "BOTTOMLEFT"), TxGarbled),
               TextItem(Prov(1, 0, 32, 8, 24, "BOTTOMLEFT"), TxFormula),
               TextItem(<<>>, TxFormula)>>]

\* Four pages: the first without an image, the second twice as large as its
\* image, the third with an image URI that is not a data URI, the fourth with
\* a data URI that does not decode.  The table of page 2 has a garbled cell
\* and a formula cell whose bbox is None.
DocB ==
  [pages |-> <<Page(32, 32, "none", 0, 0), Page(64, 32, "ok", 32, 16),
               Page(32, 32, "not_data_uri", 0, 0),
               Page(32, 32, "undecodable", 0, 0)>>,
   pictures |-> <<>>,
   form_items |-> <<[prov |-> Prov(1, 0, 8, 8, 0, "BOTTOMLEFT")]>>,
   key_value_items |-> <<>>,
   tables |-> <<TableItem(Prov(2, 0, 32, 32, 16, "BOTTOMLEFT"),
                          <<Cell(0, 0, TxGarbled, BBox(0, 0, 16, 16, "TOPLEFT")),
                            Cell(1, 0, TxFormula, NoBBox)>>)>>,
   texts |-> <<TextItem(Prov(1, 0, 32, 8, 24, "BOTTOMLEFT"), TxFormula),
               TextItem(Prov(2, 32, 16, 64, 0, "BOTTOMLEFT"), TxFormula),
               TextItem(Prov(3, 16, 8, 32, 0, "BOTTOMLEFT"), TxGarbled)>>]

\* One page with two tables; the provenance box of the second has its top
\* below its bottom for the origin it is read with, so its pixel box cannot
\* be cropped.
DocC ==
  [pages |-> <<Page(32, 32, "ok", 32, 32)>>,
   pictures |-> <<>>,
   form_items |-> <<>>,
   key_value_items |-> <<[prov |-> Prov(1, 24, 8, 32, 0, "BOTTOMLEFT")]>>,
   tables |-> <<TableItem(Prov(1, 0, 32, 16, 16, "BOTTOMLEFT"),
                          <<Cell(0, 0, TxFormula, BBox(0, 0, 16, 16, "TOPLEFT"))>>),
                TableItem(Prov(1, 16, 16, 32, 32, "BOTTOMLEFT"),
                          <<Cell(0, 0, TxPlain, BBox(16, 16, 32, 32, "TOPLEFT"))>>)>>,
   texts |-> <<TextItem(Prov(1, 16, 32, 32, 24, "BOTTOMLEFT"), TxGarbled)>>]

Documents == {DocC, DocA, DocB}

\* What the recognizer returns for one crop.
Lines ==
  {[text |-> <<>>, conf |-> ConfThreshold + 1],
   [text |-> TxRecognized, conf |-> ConfThreshold],
   [text |-> TxRecognized, conf |-> ConfThreshold + 1]}
LineSeqs == UNION {[1..n -> Lines] : n \in 0..MaxLines}
OcrOutcomes == {[lines |-> <<>>, kind |-> "raise"]} \cup
               {[lines |-> ls, kind |-> "lines"] : ls \in LineSeqs}

\* What the table-structure predictor returns for one table image.
PredCell(row, col, x1, y1, x2, y2) ==
  [bbox |-> <<x1, y1, x2, y2>>, row |-> row, col |-> col]

TableOutcomes ==
  {[kind |-> "cells", cells |-> <<>>],
   [kind |-> "cells", cells |-> <<PredCell(0, 0, 0, 0, 12, 12)>>],
   [kind |-> "cells", cells |-> <<PredCell(0, 0, 0, 0, 12, 12), PredCell(2, 2, 0, 0, 4, 4)>>],
   [kind |-> "raise", cells |-> <<>>]}

ResultTypes == {"ExportResult", "ZipArchiveResult", "RemoteTargetResult", "Unknown"}

Flags == [encoding : BOOLEAN, formula : BOOLEAN]

\* ------------------------------------------------------------------- state

VARIABLES
  store,            \* EnhancementStore._store
  task_status,      \* per task id: "new", "accepted" (options stored),
                    \* "prepared" (a response was returned), "failed"
                    \* (prepare_response raised)
  surya_available,  \* SURYA_AVAILABLE
  runs,             \* runs started so far
  pc,               \* position of the running request
  caller,           \* who called process_conversion_result
  cur_task, result_type, flags,
  doc,              \* the document being enhanced (mutated in place)
  doc0,             \* the document as it was handed in
  page_no, page_image, non_text_bboxes, table_bbox,
  table_idx, cell_idx, text_idx,
  adapter,          \* the OCREnhancer of the running processor
  raised,           \* process_conversion_result raised
  \* threads that share one OCREnhancer
  tpc,              \* per thread: its position in the adapter's code
  top,              \* per thread: the operation it called
  tret,             \* per thread: where _load_models returns to
  tcalls,           \* calls made by the threads so far
  none_invoked,     \* a call was handed a predictor that was never assigned
  load_calls,       \* invocations of load_predictors
  failed_settled,   \* an initialization attempt failed and returned
  reentered,        \* a call entered the initialization after that
  skipped_for,      \* per thread: the thread whose initialization was in
                    \* progress when its call found the models not available
  misled,           \* that initialization then succeeded
  \* threads that share the EnhancementStore
  lock,             \* EnhancementStore._lock: its holder, 0 when free
  s_pc, s_op, s_ret, s_calls,
  last_set,         \* per task id: the options last set and not removed
  \* one call of a function of bbox_utils.py or of the adapter
  fn,               \* the function called
  fn_in,            \* its arguments
  fn_done,          \* it has returned
  fn_out            \* what it returned

\* The locals of the running request.
runLocals ==
  <<runs, pc, caller, cur_task, result_type, flags, doc, doc0, page_no,
    page_image, non_text_bboxes, table_bbox, table_idx, cell_idx, text_idx,
    raised>>

runVars == <<runLocals, adapter>>

serviceVars == <<store, task_status, surya_available>>

loadVars ==
  <<tpc, top, tret, tcalls, none_invoked, load_calls, failed_settled, reentered,
    skipped_for, misled>>

storeVars == <<lock, s_pc, s_op, s_ret, s_calls, last_set>>

callVars == <<fn, fn_in, fn_done, fn_out>>

Threads == 1..NumThreads

\* No thread runs.
NoThreads ==
  /\ tpc = [t \in Threads |-> "idle"]
  /\ top = [t \in Threads |-> "extract"]
  /\ tret = [t \in Threads |-> "ready_check"]
  /\ tcalls = 0
  /\ none_invoked = FALSE
  /\ load_calls = 0
  /\ failed_settled = FALSE
  /\ reentered = FALSE
  /\ skipped_for = [t \in Threads |-> 0]
  /\ misled = FALSE
  /\ lock = 0
  /\ s_pc = [t \in Threads |-> "idle"]
  /\ s_op = [t \in Threads |-> [options |-> NoOptions, op |-> "get", task |-> 1]]
  /\ s_ret = [t \in Threads |-> NoOptions]
  /\ s_calls = 0
  /\ last_set = EmptyStore


\* ------------------------------------------------------ helpers of the run

NumPages(d) == Len(d.pages)

\* "hasattr(item, 'prov') and item.prov and item.prov[0].page_no == page_num"
OnPageAny(item, p) == item.prov # <<>>

OnPage(item, p) == item.prov # <<>> /\ item.prov[1].page_no = p

\* The items _collect_non_text_bboxes walks, in its order.
NonTextItems(d) ==
  d.pictures \o d.form_items \o d.key_value_items
    \o [i \in 1..Len(d.tables) |-> [prov |-> d.tables[i].prov]]

RECURSIVE SelectOnPage(_, _)
SelectOnPage(items, p) ==
  IF items = <<>> THEN <<>>
  ELSE IF OnPage(Head(items), p)
  THEN <<Head(items)>> \o SelectOnPage(Tail(items), p)
  ELSE SelectOnPage(Tail(items), p)

CollectRaises(d, p) ==
  LET pg == d.pages[p]
      its == SelectOnPage(NonTextItems(d), p)
  IN \E i \in 1..Len(its) : PixelBBoxRaises(its[i].prov[1].bbox, pg.width, pg.height)

CollectNonTextBBoxes(d, p) ==
  LET pg == d.pages[p]
      its == SelectOnPage(NonTextItems(d), p)
  IN [i \in 1..Len(its) |->
        ProvPixelBBox(its[i], pg.width, pg.height, pg.img_w, pg.img_h)]

\* "True in self._should_enhance_text(text).values()"
ShouldEnhance(text, fl) ==
  LET r == NeedsOcrEnhancement(text, fl.formula, fl.encoding)
  IN r.encoding \/ r.formula

\* "has_overlap = any(... > 0.05 for other_bbox in non_text_bboxes)"
HasOverlapAll(text_bbox, boxes) ==
  \A j \in 1..Len(boxes) : OverlapExceeds(text_bbox, boxes[j])

HasOverlap(text_bbox, boxes) ==
  \E i \in 1..Len(boxes) : OverlapExceeds(text_bbox, boxes[i])

\* "if enhanced_text and enhanced_text != cell.text: cell.text = enhanced_text"
Replacement(old_text, enhanced_text) ==
  IF Truthy(enhanced_text) /\ enhanced_text # old_text THEN enhanced_text ELSE old_text

\* A page resolver that hands any URI on as if it were an image.
ImageResolvesAnyUri(pg) == pg.image # "none"

\* extract_page_image_from_data_uri: None for a URI that does not start
\* with "data:" and for one whose payload does not decode to an image.
ExtractPageImageFromDataUri(uri) ==
  IF uri = "not_data_uri" THEN FALSE
  ELSE IF uri = "undecodable" THEN FALSE
  ELSE TRUE

\* _get_page_image: None when the page has no image, else what the data URI
\* of the image decodes to.
ImageResolves(pg) == pg.image # "none" /\ ExtractPageImageFromDataUri(pg.image)

\* ---------------------------------------------------------------- the run

\* No single function call is looked at.
NoCall ==
  /\ fn = "none"
  /\ fn_in = <<>>
  /\ fn_done = FALSE
  /\ fn_out = <<>>

\* The locals of a request that is not running.
NoRun ==
  /\ caller = "none"
  /\ cur_task = 1
  /\ result_type = "ExportResult"
  /\ flags = [encoding |-> FALSE, formula |-> FALSE]
  /\ doc = DocA
  /\ doc0 = DocA
  /\ page_no = 1
  /\ page_image = <<0, 0>>
  /\ non_text_bboxes = <<>>
  /\ table_bbox = <<0, 0, 0, 0>>
  /\ table_idx = 1
  /\ cell_idx = 1
  /\ text_idx = 1
  /\ adapter = NewAdapter
  /\ raised = FALSE

Init ==
  /\ store = EmptyStore
  /\ task_status = [t \in TaskIds |-> "new"]
  /\ surya_available \in BOOLEAN
  /\ runs = 0
  /\ pc = "idle"
  /\ NoRun
  /\ NoThreads
  /\ NoCall

\* The request is accepted: its options are stored under its task id.  Task
\* ids are handed out in increasing order.
Accept(t, o) ==
  /\ pc = "idle"
  /\ UNCHANGED <<loadVars, storeVars, callVars>>
  /\ task_status[t] = "new"
  /\ \A u \in TaskIds : u < t => task_status[u] # "new"
  /\ store' = SetOptions(store, t, o)
  /\ task_status' = [task_status EXCEPT ![t] = "accepted"]
  /\ UNCHANGED surya_available
  /\ UNCHANGED runVars

StartRun(c, t, rt, fl, d) ==
  /\ runs' = runs + 1
  /\ caller' = c
  /\ cur_task' = t
  /\ result_type' = rt
  /\ flags' = fl
  /\ doc' = d
  /\ doc0' = d
  /\ page_no' = 1
  /\ page_image' = <<0, 0>>
  /\ non_text_bboxes' = <<>>
  /\ table_bbox' = <<0, 0, 0, 0>>
  /\ table_idx' = 1
  /\ cell_idx' = 1
  /\ text_idx' = 1
  /\ adapter' = NewAdapter
  /\ raised' = FALSE

\* The request's locals go out of scope.
ClearRun ==
  /\ caller' = "none"
  /\ cur_task' = 1
  /\ result_type' = "ExportResult"
  /\ flags' = [encoding |-> FALSE, formula |-> FALSE]
  /\ doc' = DocA
  /\ doc0' = DocA
  /\ page_no' = 1
  /\ page_image' = <<0, 0>>
  /\ non_text_bboxes' = <<>>
  /\ table_bbox' = <<0, 0, 0, 0>>
  /\ table_idx' = 1
  /\ cell_idx' = 1
  /\ text_idx' = 1
  /\ adapter' = NewAdapter
  /\ raised' = FALSE

\* prepare_response, to the call of process_conversion_result; an unknown
\* result type raises ValueError.
PrepareResponse(t, rt, d, has_json) ==
  /\ pc = "idle"
  /\ UNCHANGED <<loadVars, storeVars, callVars>>
  /\ runs < MaxRuns
  /\ task_status[t] \in {"new", "accepted"}
  /\ LET o == GetOptions(store, t)
     IN IF rt = "Unknown"
        THEN /\ runs' = runs + 1
             /\ ClearRun
             /\ pc' = "idle"
        ELSE /\ StartRun("prepare_response", t, rt,
                         [encoding |-> o.encoding, formula |-> o.formula], d)
             /\ pc' = IF rt = "ExportResult"
                      THEN IF o.set /\ (o.formula \/ o.encoding) /\ has_json
                           THEN "process" ELSE "cleanup"
                      ELSE "respond"
  /\ task_status' = IF rt = "Unknown" THEN [task_status EXCEPT ![t] = "failed"]
                    ELSE task_status
  /\ UNCHANGED <<store, surya_available>>

\* A caller that builds a DocumentEnhancer and calls process_conversion_result.
DirectCall(fl, d) ==
  /\ pc = "idle"
  /\ UNCHANGED <<loadVars, storeVars, callVars>>
  /\ runs < MaxRuns
  /\ \A t \in TaskIds : task_status[t] = "new"
  /\ StartRun("direct", cur_task, result_type, fl, d)
  /\ pc' = "process"
  /\ UNCHANGED serviceVars

\* An entry without the flag check.
ProcessEntryUnchecked ==
  /\ pc = "process"
  /\ UNCHANGED <<loadVars, storeVars, callVars>>
  /\ pc' = "page"
  /\ UNCHANGED serviceVars
  /\ UNCHANGED <<runs, caller, cur_task, result_type, flags, doc, doc0, page_no,
                 page_image, non_text_bboxes, table_bbox, table_idx, cell_idx,
                 text_idx, adapter, raised>>

\* process_conversion_result: the flag check.
ProcessEntry ==
  /\ pc = "process"
  /\ UNCHANGED <<loadVars, storeVars, callVars>>
  /\ pc' = IF ~(flags.formula \/ flags.encoding) THEN "process_exit" ELSE "page"
  /\ UNCHANGED serviceVars
  /\ UNCHANGED <<runs, caller, cur_task, result_type, flags, doc, doc0, page_no,
                 page_image, non_text_bboxes, table_bbox, table_idx, cell_idx,
                 text_idx, adapter, raised>>

\* The page loop: the next page's image is resolved, or the loop ends.
ResolveImage ==
  /\ pc = "page"
  /\ UNCHANGED <<loadVars, storeVars, callVars>>
  /\ IF page_no > NumPages(doc)
     THEN /\ pc' = "process_exit"
          /\ UNCHANGED <<page_no, page_image>>
     ELSE LET pg == doc.pages[page_no]
          IN IF ImageResolves(pg)
             THEN /\ page_image' = <<pg.img_w, pg.img_h>>
                  /\ pc' = "collect"
                  /\ UNCHANGED page_no
             ELSE /\ page_no' = page_no + 1
                  /\ pc' = "page"
                  /\ UNCHANGED page_image
  /\ UNCHANGED serviceVars
  /\ UNCHANGED <<runs, caller, cur_task, result_type, flags, doc, doc0,
                 non_text_bboxes, table_bbox, table_idx, cell_idx, text_idx,
                 adapter, raised>>

\* _process_page_elements with the call of _process_tables left out.
CollectNonTextThenTexts ==
  /\ pc = "collect"
  /\ UNCHANGED <<loadVars, storeVars, callVars>>
  /\ IF CollectRaises(doc, page_no)
     THEN /\ raised' = TRUE
          /\ pc' = "process_exit"
          /\ UNCHANGED <<non_text_bboxes, text_idx>>
     ELSE /\ non_text_bboxes' = CollectNonTextBBoxes(doc, page_no)
          /\ text_idx' = 1
          /\ pc' = "texts"
          /\ UNCHANGED raised
  /\ UNCHANGED serviceVars
  /\ UNCHANGED <<runs, caller, cur_task, result_type, flags, doc, doc0, page_no,
                 page_image, table_bbox, table_idx, cell_idx, adapter>>

\* _collect_non_text_bboxes
CollectNonText ==
  /\ pc = "collect"
  /\ UNCHANGED <<loadVars, storeVars, callVars>>
  /\ IF CollectRaises(doc, page_no)
     THEN /\ raised' = TRUE
          /\ pc' = "process_exit"
          /\ UNCHANGED <<non_text_bboxes, table_idx>>
     ELSE /\ non_text_bboxes' = CollectNonTextBBoxes(doc, page_no)
          /\ table_idx' = 1
          /\ pc' = "tables"
          /\ UNCHANGED raised
  /\ UNCHANGED serviceVars
  /\ UNCHANGED <<runs, caller, cur_task, result_type, flags, doc, doc0, page_no,
                 page_image, table_bbox, cell_idx, text_idx, adapter>>

\* _process_tables: one table of the loop, to its structure correction.
TableStep(lo, tp) ==
  /\ pc = "tables"
  /\ UNCHANGED <<loadVars, storeVars, callVars>>
  /\ IF table_idx > Len(doc.tables)
     THEN /\ pc' = "texts"
          /\ text_idx' = 1
          /\ UNCHANGED <<doc, table_bbox, table_idx, cell_idx, adapter, raised>>
     ELSE LET tb == doc.tables[table_idx]
              pg == doc.pages[page_no]
              box == ProvPixelBBox(tb, pg.width, pg.height, page_image[1], page_image[2])
              ad1 == EnsureLoaded(adapter, surya_available, lo)
          IN IF ~OnPage(tb, page_no)
             THEN /\ table_idx' = table_idx + 1
                  /\ pc' = "tables"
                  /\ UNCHANGED <<doc, table_bbox, cell_idx, text_idx, adapter, raised>>
             ELSE IF PixelBBoxRaises(tb.prov[1].bbox, pg.width, pg.height) \/ CropRaises(box)
             THEN /\ raised' = TRUE
                  /\ pc' = "process_exit"
                  /\ UNCHANGED <<doc, table_bbox, table_idx, cell_idx, text_idx, adapter>>
             ELSE /\ adapter' = ad1
                  /\ doc' = [doc EXCEPT !.tables[table_idx].cells =
                               EnhanceTableStructure(ad1, tb.cells, box, page_image,
                                                     pg.width, pg.height, tp)]
                  /\ table_bbox' = box
                  /\ cell_idx' = 1
                  /\ pc' = "cells"
                  /\ UNCHANGED <<table_idx, text_idx, raised>>
  /\ UNCHANGED serviceVars
  /\ UNCHANGED <<runs, caller, cur_task, result_type, flags, doc0, page_no,
                 page_image, non_text_bboxes>>

\* _process_tables: one cell of the current table.
CellStep(lo, ocr) ==
  /\ pc = "cells"
  /\ UNCHANGED <<loadVars, storeVars, callVars>>
  /\ LET tb == doc.tables[table_idx]
         pg == doc.pages[page_no]
     IN IF cell_idx > Len(tb.cells)
        THEN /\ table_idx' = table_idx + 1
             /\ pc' = "tables"
             /\ UNCHANGED <<doc, cell_idx, adapter, raised>>
        ELSE LET cell == tb.cells[cell_idx]
                 box == CellPixelBBox(cell, pg.width, pg.height, page_image[1], page_image[2])
                 ad1 == EnsureLoaded(adapter, surya_available, lo)
                 enhanced_text == ExtractTextFromRegion(ad1, page_image, box, cell.text, ocr)
             IN IF ~ShouldEnhance(cell.text, flags)
                THEN /\ cell_idx' = cell_idx + 1
                     /\ pc' = "cells"
                     /\ UNCHANGED <<doc, table_idx, adapter, raised>>
                ELSE IF PixelBBoxRaises(cell.bbox, pg.width, pg.height)
                THEN /\ raised' = TRUE
                     /\ pc' = "process_exit"
                     /\ UNCHANGED <<doc, table_idx, cell_idx, adapter>>
                ELSE /\ adapter' = ad1
                     /\ doc' = [doc EXCEPT !.tables[table_idx].cells[cell_idx].text =
                                  Replacement(cell.text, enhanced_text)]
                     /\ cell_idx' = cell_idx + 1
                     /\ pc' = "cells"
                     /\ UNCHANGED <<table_idx, raised>>
  /\ UNCHANGED serviceVars
  /\ UNCHANGED <<runs, caller, cur_task, result_type, flags, doc0, page_no,
                 page_image, non_text_bboxes, table_bbox, text_idx>>

\* _process_text_elements: one text of the loop.
TextStep(lo, ocr) ==
  /\ pc = "texts"
  /\ UNCHANGED <<loadVars, storeVars, callVars>>
  /\ IF text_idx > Len(doc.texts)
     THEN /\ page_no' = page_no + 1
          /\ pc' = "page"
          /\ UNCHANGED <<doc, text_idx, adapter, raised>>
     ELSE LET tx == doc.texts[text_idx]
              pg == doc.pages[page_no]
              box == ProvPixelBBox(tx, pg.width, pg.height, page_image[1], page_image[2])
              ad1 == EnsureLoaded(adapter, surya_available, lo)
              enhanced_text == ExtractTextFromRegion(ad1, page_image, box, tx.text, ocr)
          IN IF ~OnPage(tx, page_no)
             THEN /\ text_idx' = text_idx + 1
                  /\ pc' = "texts"
                  /\ UNCHANGED <<doc, page_no, adapter, raised>>
             ELSE IF PixelBBoxRaises(tx.prov[1].bbox, pg.width, pg.height)
             THEN /\ raised' = TRUE
                  /\ pc' = "process_exit"
                  /\ UNCHANGED <<doc, page_no, text_idx, adapter>>
             ELSE IF HasOverlap(box, non_text_bboxes) \/ ~ShouldEnhance(tx.text, flags)
             THEN /\ text_idx' = text_idx + 1
                  /\ pc' = "texts"
                  /\ UNCHANGED <<doc, page_no, adapter, raised>>
             ELSE /\ adapter' = ad1
                  /\ doc' = [doc EXCEPT !.texts[text_idx].text =
                               Replacement(tx.text, enhanced_text)]
                  /\ text_idx' = text_idx + 1
                  /\ pc' = "texts"
                  /\ UNCHANGED <<page_no, raised>>
  /\ UNCHANGED serviceVars
  /\ UNCHANGED <<runs, caller, cur_task, result_type, flags, doc0, page_image,
                 non_text_bboxes, table_bbox, table_idx, cell_idx>>

\* process_conversion_result returns or raises to its caller.  In
\* prepare_response both ways leave new_doc bound to the document object
\* that was handed in.
ProcessExit ==
  /\ pc = "process_exit"
  /\ UNCHANGED <<loadVars, storeVars, callVars>>
  /\ IF caller = "direct"
     THEN /\ pc' = "idle"
          /\ ClearRun
     ELSE /\ pc' = "cleanup"
          /\ UNCHANGED <<caller, cur_task, result_type, flags, doc, doc0, page_no,
                         page_image, non_text_bboxes, table_bbox, table_idx,
                         cell_idx, text_idx, adapter, raised>>
  /\ UNCHANGED serviceVars
  /\ UNCHANGED runs

\* "enhancement_store.remove_options(task_id)" and the response object.
Cleanup ==
  /\ pc = "cleanup"
  /\ UNCHANGED <<loadVars, storeVars, callVars>>
  /\ store' = RemoveOptions(store, cur_task)
  /\ pc' = "respond"
  /\ UNCHANGED <<task_status, surya_available>>
  /\ UNCHANGED <<runs, caller, cur_task, result_type, flags, doc, doc0, page_no,
                 page_image, non_text_bboxes, table_bbox, table_idx, cell_idx,
                 text_idx, adapter, raised>>

\* prepare_response returns its response.
Respond ==
  /\ pc = "respond"
  /\ UNCHANGED <<loadVars, storeVars, callVars>>
  /\ task_status' = [task_status EXCEPT ![cur_task] = "prepared"]
  /\ pc' = "idle"
  /\ ClearRun
  /\ UNCHANGED <<store, surya_available, runs>>

\* The outcomes worth drawing in the current state: those of the calls the
\* step makes.
LoadChoices ==
  IF adapter.models_loaded \/ ~surya_available THEN {"ok"} ELSE LoadOutcomes

TableActive ==
  /\ pc = "tables"
  /\ table_idx <= Len(doc.tables)
  /\ OnPage(doc.tables[table_idx], page_no)

CellActive ==
  /\ pc = "cells"
  /\ cell_idx <= Len(doc.tables[table_idx].cells)
  /\ ShouldEnhance(doc.tables[table_idx].cells[cell_idx].text, flags)

TextActive ==
  /\ pc = "texts"
  /\ text_idx <= Len(doc.texts)
  /\ OnPage(doc.texts[text_idx], page_no)
  /\ ShouldEnhance(doc.texts[text_idx].text, flags)

TableChoices ==
  IF TableActive THEN TableOutcomes ELSE {[kind |-> "raise", cells |-> <<>>]}

OcrChoices(active) ==
  IF active THEN OcrOutcomes ELSE {[lines |-> <<>>, kind |-> "raise"]}

vars ==
  <<store, task_status, surya_available, runVars, loadVars, storeVars, callVars>>

Next ==
  \/ \E t \in TaskIds, o \in Options : Accept(t, o)
  \/ \E t \in TaskIds, rt \in ResultTypes, d \in Documents, hj \in BOOLEAN :
       PrepareResponse(t, rt, d, hj)
  \/ \E fl \in Flags, d \in Documents : DirectCall(fl, d)
  \/ ProcessEntry
  \/ ResolveImage
  \/ CollectNonText
  \/ \E lo \in LoadChoices, tp \in TableChoices : TableStep(lo, tp)
  \/ \E lo \in LoadChoices, ocr \in OcrChoices(CellActive) : CellStep(lo, ocr)
  \/ \E lo \in LoadChoices, ocr \in OcrChoices(TextActive) : TextStep(lo, ocr)
  \/ ProcessExit
  \/ Cleanup
  \/ Respond

Spec == Init /\ [][Next]_vars

\* A step of process_conversion_result and of the caller's return path.  The
\* run is one synchronous thread: while its external calls return, its next
\* statement is executed.
RunStep ==
  \/ ProcessEntry
  \/ ResolveImage
  \/ CollectNonText
  \/ \E lo \in LoadChoices, tp \in TableChoices : TableStep(lo, tp)
  \/ \E lo \in LoadChoices, ocr \in OcrChoices(CellActive) : CellStep(lo, ocr)
  \/ \E lo \in LoadChoices, ocr \in OcrChoices(TextActive) : TextStep(lo, ocr)
  \/ ProcessExit
  \/ Cleanup
  \/ Respond

\* The runs in which every external call returns.
SpecLive == Spec /\ WF_vars(RunStep)

\* ------------------------------------------ threads on one OCREnhancer

AdapterOps == {"extract", "table", "property"}

\* The positions between "self._models_loading = True" and the end of the
\* finally clause.
Initializing == {"load", "assign", "set_loaded", "except", "finally_ok", "finally_fail"}

InitLoad ==
  /\ store = EmptyStore
  /\ task_status = [t \in TaskIds |-> "new"]
  /\ surya_available \in BOOLEAN
  /\ runs = 0
  /\ pc = "idle"
  /\ NoRun
  /\ NoThreads
  /\ NoCall

loadFrame ==
  UNCHANGED <<store, task_status, surya_available, runLocals, storeVars, callVars>>

\* What an action of the threads leaves alone among their own variables.
loadKeep(changed) ==
  /\ "adapter" \in changed \/ UNCHANGED adapter
  /\ "top" \in changed \/ UNCHANGED top
  /\ "tret" \in changed \/ UNCHANGED tret
  /\ "tcalls" \in changed \/ UNCHANGED tcalls
  /\ "none_invoked" \in changed \/ UNCHANGED none_invoked
  /\ "load_calls" \in changed \/ UNCHANGED load_calls
  /\ "failed_settled" \in changed \/ UNCHANGED failed_settled
  /\ "reentered" \in changed \/ UNCHANGED reentered
  /\ "skipped_for" \in changed \/ UNCHANGED skipped_for
  /\ "misled" \in changed \/ UNCHANGED misled
  /\ loadFrame

\* The call of a thread returns.
T_Return(t) ==
  /\ tpc' = [tpc EXCEPT ![t] = "idle"]
  /\ top' = [top EXCEPT ![t] = "extract"]
  /\ tret' = [tret EXCEPT ![t] = "ready_check"]

\* A thread calls extract_text_from_region or enhance_table_structure, or
\* reads a predictor property.
T_Call(t, op) ==
  /\ tpc[t] = "idle"
  /\ tcalls < MaxCalls
  /\ tcalls' = tcalls + 1
  /\ top' = [top EXCEPT ![t] = op]
  /\ skipped_for' = [skipped_for EXCEPT ![t] = 0]
  /\ tret' = [tret EXCEPT ![t] = IF op = "property" THEN "invoke" ELSE "ready_check"]
  /\ tpc' = [tpc EXCEPT ![t] = IF op = "property" THEN "prop2" ELSE "check"]
  /\ loadKeep({"top", "tret", "tcalls", "skipped_for"})

\* "if not self._models_loaded: self._load_models()" at the head of
\* extract_text_from_region and enhance_table_structure.
T_Check(t) ==
  /\ tpc[t] = "check"
  /\ tpc' = [tpc EXCEPT ![t] = IF ~adapter.models_loaded THEN "guard" ELSE "ready_check"]
  /\ loadKeep({})

\* _load_models: "if self._models_loaded or self._models_loading: return" and
\* "if not SURYA_AVAILABLE: return".
T_Guard(t) ==
  /\ tpc[t] = "guard"
  /\ LET enters == ~(adapter.models_loaded \/ adapter.models_loading) /\ surya_available
     IN /\ tpc' = [tpc EXCEPT ![t] = IF enters THEN "set_loading" ELSE tret[t]]
        /\ reentered' = (reentered \/ (enters /\ failed_settled))
  /\ loadKeep({"reentered"})

\* "self._models_loading = True"
T_SetLoading(t) ==
  /\ tpc[t] = "set_loading"
  /\ adapter' = [adapter EXCEPT !.models_loading = TRUE]
  /\ tpc' = [tpc EXCEPT ![t] = "load"]
  /\ loadKeep({"adapter"})

\* _load_models with the three assignments left out.
T_LoadUnassigned(t, outcome) ==
  /\ tpc[t] = "load"
  /\ load_calls' = load_calls + 1
  /\ tpc' = [tpc EXCEPT ![t] = IF outcome = "ok" THEN "set_loaded" ELSE "except"]
  /\ loadKeep({"load_calls"})

\* "predictor = load_predictors(device=device)": returns or raises.
T_Load(t, outcome) ==
  /\ tpc[t] = "load"
  /\ load_calls' = load_calls + 1
  /\ tpc' = [tpc EXCEPT ![t] = IF outcome = "ok" THEN "assign" ELSE "except"]
  /\ loadKeep({"load_calls"})

\* The three predictors are assigned from the load result.
T_Assign(t) ==
  /\ tpc[t] = "assign"
  /\ adapter' = [adapter EXCEPT !.assigned = TRUE]
  /\ tpc' = [tpc EXCEPT ![t] = "set_loaded"]
  /\ loadKeep({"adapter"})

\* "self._models_loaded = True"
T_SetLoaded(t) ==
  /\ tpc[t] = "set_loaded"
  /\ adapter' = [adapter EXCEPT !.models_loaded = TRUE]
  /\ misled' = (misled \/ \E u \in Threads : skipped_for[u] = t)
  /\ skipped_for' = [u \in Threads |-> IF skipped_for[u] = t THEN 0 ELSE skipped_for[u]]
  /\ tpc' = [tpc EXCEPT ![t] = "finally_ok"]
  /\ loadKeep({"adapter", "misled", "skipped_for"})

\* "except Exception: self._models_loaded = False"
T_Except(t) ==
  /\ tpc[t] = "except"
  /\ adapter' = [adapter EXCEPT !.models_loaded = FALSE]
  /\ skipped_for' = [u \in Threads |-> IF skipped_for[u] = t THEN 0 ELSE skipped_for[u]]
  /\ tpc' = [tpc EXCEPT ![t] = "finally_fail"]
  /\ loadKeep({"adapter", "skipped_for"})

\* "finally: self._models_loading = False", and _load_models returns.
T_Finally(t) ==
  /\ tpc[t] \in {"finally_ok", "finally_fail"}
  /\ adapter' = [adapter EXCEPT !.models_loading = FALSE]
  /\ failed_settled' = (failed_settled \/ tpc[t] = "finally_fail")
  /\ tpc' = [tpc EXCEPT ![t] = tret[t]]
  /\ loadKeep({"adapter", "failed_settled"})

\* "if not self._models_loaded: return old_text" (or return, for the table).
T_ReadyCheck(t) ==
  /\ tpc[t] = "ready_check"
  /\ IF ~adapter.models_loaded
     THEN /\ T_Return(t)
          /\ \E u \in IF {v \in Threads : tpc[v] \in Initializing} = {}
                      THEN {0} ELSE {v \in Threads : tpc[v] \in Initializing} :
               skipped_for' = [skipped_for EXCEPT ![t] = u]
     ELSE /\ tpc' = [tpc EXCEPT ![t] = IF top[t] = "extract" THEN "prop1" ELSE "prop2"]
          /\ UNCHANGED <<top, tret, skipped_for>>
  /\ loadKeep({"top", "tret", "skipped_for"})

\* The recognition_predictor property, read by extract_text_from_region
\* before the detection_predictor property.
T_Prop1(t) ==
  /\ tpc[t] = "prop1"
  /\ tpc' = [tpc EXCEPT ![t] = IF ~adapter.models_loaded THEN "guard" ELSE "prop2"]
  /\ tret' = [tret EXCEPT ![t] = "prop2"]
  /\ loadKeep({"tret"})

\* The last predictor property a call reads: detection_predictor,
\* table_rec_predictor, or the property the thread asked for.
T_Prop2(t) ==
  /\ tpc[t] = "prop2"
  /\ tpc' = [tpc EXCEPT ![t] = IF ~adapter.models_loaded THEN "guard" ELSE "invoke"]
  /\ tret' = [tret EXCEPT ![t] = "invoke"]
  /\ loadKeep({"tret"})

\* The predictor is handed out: a predictor that was never assigned is None.
T_Invoke(t) ==
  /\ tpc[t] = "invoke"
  /\ none_invoked' = (none_invoked \/ ~adapter.assigned)
  /\ T_Return(t)
  /\ loadKeep({"top", "tret", "none_invoked"})

NextLoad ==
  \/ \E t \in Threads, op \in AdapterOps : T_Call(t, op)
  \/ \E t \in Threads : T_Check(t)
  \/ \E t \in Threads : T_Guard(t)
  \/ \E t \in Threads : T_SetLoading(t)
  \/ \E t \in Threads, o \in LoadOutcomes : T_Load(t, o)
  \/ \E t \in Threads : T_Assign(t)
  \/ \E t \in Threads : T_SetLoaded(t)
  \/ \E t \in Threads : T_Except(t)
  \/ \E t \in Threads : T_Finally(t)
  \/ \E t \in Threads : T_ReadyCheck(t)
  \/ \E t \in Threads : T_Prop1(t)
  \/ \E t \in Threads : T_Prop2(t)
  \/ \E t \in Threads : T_Invoke(t)

SpecLoad == InitLoad /\ [][NextLoad]_vars

\* ------------------------------------- threads on the EnhancementStore

\* The calls a thread can make on the store.
StoreOps ==
  [options : {NoOptions}, op : {"get", "remove"}, task : TaskIds]
    \cup [options : {NoOptions}, op : {"clear"}, task : {1}]
    \cup [options : Options, op : {"set"}, task : TaskIds]

NoStoreOp == [options |-> NoOptions, op |-> "get", task |-> 1]

InitStore ==
  /\ store = EmptyStore
  /\ task_status = [t \in TaskIds |-> "new"]
  /\ surya_available = TRUE
  /\ runs = 0
  /\ pc = "idle"
  /\ NoRun
  /\ NoThreads
  /\ NoCall

storeFrame == UNCHANGED <<task_status, surya_available, runVars, loadVars, callVars>>

\* A thread calls set_options, get_options, remove_options or clear.
S_Call(t, o) ==
  /\ s_pc[t] = "idle"
  /\ s_calls < MaxStoreCalls
  /\ s_calls' = s_calls + 1
  /\ s_op' = [s_op EXCEPT ![t] = o]
  /\ s_ret' = [s_ret EXCEPT ![t] = NoOptions]
  /\ s_pc' = [s_pc EXCEPT ![t] = "acquire"]
  /\ UNCHANGED <<store, lock, last_set>>
  /\ storeFrame

\* "with self._lock:" is entered: the thread waits until the lock is free.
S_Acquire(t) ==
  /\ s_pc[t] = "acquire"
  /\ lock = 0
  /\ lock' = t
  /\ s_pc' = [s_pc EXCEPT ![t] = "body"]
  /\ UNCHANGED <<store, s_op, s_ret, s_calls, last_set>>
  /\ storeFrame

\* The body of the method, under the lock.
S_Body(t) ==
  /\ s_pc[t] = "body"
  /\ LET o == s_op[t]
     IN /\ store' =
             CASE o.op = "set" -> SetOptions(store, o.task, o.options)
               [] o.op = "get" -> store
               [] o.op = "remove" -> RemoveOptions(store, o.task)
               [] o.op = "clear" -> ClearStore(store)
        /\ s_ret' = [s_ret EXCEPT ![t] =
                       IF o.op = "get" THEN GetOptions(store, o.task) ELSE NoOptions]
        /\ last_set' =
             [k \in TaskIds |->
                CASE o.op = "set" /\ k = o.task -> o.options
                  [] o.op = "remove" /\ k = o.task -> NoOptions
                  [] o.op = "clear" -> NoOptions
                  [] OTHER -> last_set[k]]
  /\ s_pc' = [s_pc EXCEPT ![t] = "release"]
  /\ UNCHANGED <<lock, s_op, s_calls>>
  /\ storeFrame

\* The lock is released and the method returns.
S_Release(t) ==
  /\ s_pc[t] = "release"
  /\ lock' = 0
  /\ s_pc' = [s_pc EXCEPT ![t] = "idle"]
  /\ s_op' = [s_op EXCEPT ![t] = NoStoreOp]
  /\ s_ret' = [s_ret EXCEPT ![t] = NoOptions]
  /\ UNCHANGED <<store, s_calls, last_set>>
  /\ storeFrame

NextStore ==
  \/ \E t \in Threads, o \in StoreOps : S_Call(t, o)
  \/ \E t \in Threads : S_Acquire(t)
  \/ \E t \in Threads : S_Body(t)
  \/ \E t \in Threads : S_Release(t)

SpecStore == InitStore /\ [][NextStore]_vars

\* ------------------------------------------------- single function calls

Origins == {"TOPLEFT", "TOPRIGHT", "BOTTOMLEFT", "BOTTOMRIGHT", "CENTER"}

\* Width and height of the boxes handed to get_pixel_bbox.
Extents == {<<0, 0>>, <<4, 2>>, <<100, 50>>}

\* <<pdf_w, pdf_h, img_w, img_h>>: square pages rendered at their own size,
\* a 200 x 100 page and a US Letter page rendered at their own size, and a
\* page twice as large as its image.
PageSizes ==
  {<<s, s, s, s>> : s \in 1..MaxSide}
    \cup {<<200, 100, 200, 100>>, <<612, 792, 612, 792>>, <<64, 32, 32, 16>>}

\* The left upper corners of the boxes handed to get_pixel_bbox.
Corners == {<<l, t>> : l \in 0..MaxCoord, t \in {0, MaxCoord}}

\* The arguments of get_pixel_bbox: <<bbox, pdf_w, pdf_h, img_w, img_h>>.
\* Boxes with origin CENTER lie on pages whose height is a power of two.
PixelInputs ==
  {<<BBox(c[1], c[2], c[1] + e[1], c[2] + e[2], o), pg[1], pg[2], pg[3], pg[4]>> :
     c \in Corners, e \in Extents, o \in Origins,
     pg \in {q \in PageSizes : q[2] = Pow2(FloorLog2(q[2]))}}
  \cup
  {<<BBox(c[1], c[2], c[1] + e[1], c[2] + e[2], o), pg[1], pg[2], pg[3], pg[4]>> :
     c \in Corners, e \in Extents, o \in Origins \ {"CENTER"}, pg \in PageSizes}

\* Pixel boxes <<x1, y1, x2, y2>>, the inverted ones among them.
PixelBoxes == (0..MaxPixel) \X (0..MaxPixel) \X (0..MaxPixel) \X (0..MaxPixel)

\* Squares of side 1 and 2.
Squares ==
  {<<x, y, x + w, y + w>> : x \in 0..MaxPixel, y \in 0..MaxPixel, w \in {1, 2}}

\* The arguments of calculate_overlap_ratio: <<boxA, boxB>>, a box with
\* itself and a box with a square.
OverlapInputs ==
  {<<a, a>> : a \in PixelBoxes} \cup (PixelBoxes \X Squares)

AdapterStates ==
  {[models_loaded |-> ml, models_loading |-> FALSE, assigned |-> asg] :
     ml \in BOOLEAN, asg \in BOOLEAN}

\* The arguments of extract_text_from_region and what the recognizer does:
\* <<adapter, image size, bbox, old_text, ocr>>.
ExtractInputs ==
  AdapterStates \X {<<32, 32>>} \X {<<0, 0, 8, 8>>, <<20, 0, 0, 8>>}
    \X {TxFormula, TxGarbled} \X OcrOutcomes

\* The arguments of enhance_table_structure and what the predictor does:
\* <<adapter, cells, table_bbox, image size, pdf_w, pdf_h, prediction>>.
TableInputs ==
  AdapterStates
    \X {DocA.tables[1].cells, DocB.tables[1].cells, DocC.tables[1].cells,
        <<Cell(0, 0, TxPlain, BBox(0, 16, 16, 0, "BOTTOMLEFT"))>>}
    \X {<<0, 0, 16, 16>>} \X {<<32, 32>>} \X {32} \X {32} \X TableOutcomes

\* Predicted cell boxes, relative to the table image: empty, 4 and 12
\* pixels wide and high.
CellBoxes ==
  {<<x, y, x + w, y + h>> :
     x \in 0..MaxPixel, y \in 0..MaxPixel, w \in {0, 4, 12}, h \in {0, 4, 12}}

\* The arguments of update_cell_bbox:
\* <<surya_cell.bbox, table_bbox, img_w, img_h, pdf_w, pdf_h>>, the page
\* rendered at its own size and at half its size.
UpdateInputs ==
  {<<cb, tb, pg[1], pg[2], pg[3], pg[4]>> :
     cb \in CellBoxes, tb \in {<<0, 0, 16, 16>>, <<8, 4, 24, 12>>},
     pg \in {<<32, 32, 32, 32>>, <<32, 16, 64, 32>>}}

\* The arguments of needs_ocr_enhancement:
\* <<text, check_formula, check_encoding>>.
AnalyzerInputs ==
  (UNION {[1..n -> {"a", "2", Space, ReplacementChar, Nul, EAcute, SuperTwo}] :
            n \in 0..MaxText})
    \X BOOLEAN \X BOOLEAN

InitCalls ==
  /\ store = EmptyStore
  /\ task_status = [t \in TaskIds |-> "new"]
  /\ runs = 0
  /\ pc = "idle"
  /\ NoRun
  /\ NoThreads
  /\ fn_done = FALSE
  /\ fn_out = <<>>
  /\ \/ /\ fn = "get_pixel_bbox"
        /\ fn_in \in PixelInputs
        /\ surya_available = TRUE
     \/ /\ fn = "calculate_overlap_ratio"
        /\ fn_in \in OverlapInputs
        /\ surya_available = TRUE
     \/ /\ fn = "update_cell_bbox"
        /\ fn_in \in UpdateInputs
        /\ surya_available = TRUE
     \/ /\ fn = "needs_ocr_enhancement"
        /\ fn_in \in AnalyzerInputs
        /\ surya_available = TRUE
     \/ /\ fn = "extract_text_from_region"
        /\ fn_in \in ExtractInputs
        /\ surya_available \in BOOLEAN
     \/ /\ fn = "enhance_table_structure"
        /\ fn_in \in TableInputs
        /\ surya_available \in BOOLEAN

callFrame ==
  UNCHANGED <<store, task_status, surya_available, runVars, loadVars, storeVars,
              fn, fn_in>>

Call_GetPixelBBox ==
  /\ fn = "get_pixel_bbox"
  /\ ~fn_done
  /\ fn_out' = GetPixelBBox(fn_in[1], fn_in[1].origin, fn_in[2], fn_in[3],
                            fn_in[4], fn_in[5])
  /\ fn_done' = TRUE
  /\ callFrame

Call_CalculateOverlapRatio ==
  /\ fn = "calculate_overlap_ratio"
  /\ ~fn_done
  /\ fn_out' = CalculateOverlapRatio(fn_in[1], fn_in[2])
  /\ fn_done' = TRUE
  /\ callFrame

Call_NeedsOcrEnhancement ==
  /\ fn = "needs_ocr_enhancement"
  /\ ~fn_done
  /\ fn_out' = NeedsOcrEnhancement(fn_in[1], fn_in[2], fn_in[3])
  /\ fn_done' = TRUE
  /\ callFrame

\* The call returns the bbox it stores in the cell.
Call_UpdateCellBBox ==
  /\ fn = "update_cell_bbox"
  /\ ~fn_done
  /\ fn_out' = UpdateCellBBox(fn_in[1], fn_in[2], fn_in[3], fn_in[4], fn_in[5],
                              fn_in[6])
  /\ fn_done' = TRUE
  /\ callFrame

\* The call returns <<the adapter as the call leaves it, the text>>; with
\* them go the rectangle it handed to image.crop and, if the crop did not
\* raise, the canvas it built (both empty if the call returned before).
Call_ExtractTextFromRegion(lo) ==
  /\ fn = "extract_text_from_region"
  /\ ~fn_done
  /\ LET ad1 == EnsureLoaded(fn_in[1], surya_available, lo)
         crop == PadCrop(fn_in[3], fn_in[2][1], fn_in[2][2])
     IN fn_out' = <<ad1,
                    ExtractTextFromRegion(ad1, fn_in[2], fn_in[3], fn_in[4], fn_in[5]),
                    IF ad1.models_loaded THEN crop ELSE <<>>,
                    IF ad1.models_loaded /\ ~CropRaises(crop)
                    THEN PasteOnCanvas(crop) ELSE <<>>>>
  /\ fn_done' = TRUE
  /\ callFrame

\* The call returns <<the adapter as the call leaves it, the table's cells>>.
Call_EnhanceTableStructure(lo) ==
  /\ fn = "enhance_table_structure"
  /\ ~fn_done
  /\ LET ad1 == EnsureLoaded(fn_in[1], surya_available, lo)
     IN fn_out' = <<ad1, EnhanceTableStructure(ad1, fn_in[2], fn_in[3], fn_in[4],
                                               fn_in[5], fn_in[6], fn_in[7])>>
  /\ fn_done' = TRUE
  /\ callFrame

NextCalls ==
  \/ Call_GetPixelBBox
  \/ Call_CalculateOverlapRatio
  \/ Call_UpdateCellBBox
  \/ Call_NeedsOcrEnhancement
  \/ \E lo \in LoadOutcomes : Call_ExtractTextFromRegion(lo)
  \/ \E lo \in LoadOutcomes : Call_EnhanceTableStructure(lo)

SpecCalls == InitCalls /\ [][NextCalls]_vars

\* ------------------------------------------------------------- properties

BothFlags == flags.formula /\ flags.encoding
NoFlag == ~flags.formula /\ ~flags.encoding

\* The positions inside process_conversion_result.
Processing == {"process", "page", "collect", "tables", "cells", "texts", "process_exit"}

\* Every text field and every bbox field of the document equals its value
\* when the document was handed in.
DocUntouched == doc = doc0

\* C1: with both flags false process_conversion_result returns the document
\* as it was handed in: the run stops at the flag check, no page image is
\* decoded, the adapter is not touched and no element is written; and
\* prepare_response runs the enhancer only for an ExportResult whose task has
\* options stored with at least one flag true.
C1_FlagsOffIdentity ==
  /\ (pc # "idle" /\ NoFlag) =>
        /\ pc \notin {"page", "collect", "tables", "cells", "texts"}
        /\ DocUntouched
        /\ page_image = <<0, 0>>
        /\ adapter = NewAdapter
        /\ ~raised
  /\ (pc \in Processing /\ caller = "prepare_response") =>
        /\ result_type = "ExportResult"
        /\ GetOptions(store, cur_task).set
        /\ flags.formula = GetOptions(store, cur_task).formula
        /\ flags.encoding = GetOptions(store, cur_task).encoding
        /\ flags.formula \/ flags.encoding
  /\ (caller = "prepare_response" /\ result_type # "ExportResult") => DocUntouched

\* A direct call with both flags false has returned, on a document that has
\* texts and cells the analyzer would flag.
C1_Witness ==
  /\ pc = "process_exit"
  /\ caller = "direct"
  /\ NoFlag
  /\ doc = DocB

\* C2: with the models unavailable and both flags true,
\* process_conversion_result returns normally and leaves every text and bbox as
\* it was.
C2_DisabledAdapterReturns ==
  (pc = "process_exit" /\ BothFlags /\ ~surya_available) =>
     (~raised /\ DocUntouched)

\* C3: when process_conversion_result raised, the document prepare_response
\* returns is the document as it was before the enhancement started.
C3_FallbackIsOriginal ==
  (caller = "prepare_response" /\ raised /\ pc \in {"cleanup", "respond"}) =>
     DocUntouched

\* C4: no exception raised while handling a region propagates out of
\* process_conversion_result.
C4_NoExceptionEscapes == pc = "process_exit" => ~raised

\* The texts of a sequence of items are original or non-empty.
TextsKept(now, before) ==
  /\ Len(now) = Len(before)
  /\ \A i \in 1..Len(now) :
       \/ now[i].text = before[i].text
       \/ now[i].text # <<>>

\* C5: in every state of a run the text of each Text element and of each
\* table cell is its original value or a non-empty recognized string, and a
\* non-empty text is never replaced by an empty one.
C5_TextOriginalOrNonEmpty ==
  /\ TextsKept(doc.texts, doc0.texts)
  /\ Len(doc.tables) = Len(doc0.tables)
  /\ \A i \in 1..Len(doc.tables) : TextsKept(doc.tables[i].cells, doc0.tables[i].cells)

\* A run has replaced the text of a cell and of a text element, and kept
\* the text of another text element it sent to the recognizer.
C5_Witness ==
  /\ pc = "process_exit"
  /\ doc0 = DocA
  /\ doc.tables[1].cells[1].text = TxRecognized
  /\ doc.texts[1].text # doc0.texts[1].text
  /\ adapter.models_loaded

\* C6: over every interleaving of callers that make their first use of the
\* adapter, load_predictors is invoked at most once.
C6_SingleInitialization ==
  (~failed_settled /\ \A t \in Threads : tpc[t] \notin {"except", "finally_fail"}) =>
     load_calls <= 1

\* C7: no caller returns "models not available" while another caller's
\* initialization is in progress and then succeeds.
C7_NoEarlyNotAvailable == ~misled

\* C8: once an initialization has failed, no later call re-enters the
\* initialization logic.
C8_DisabledStaysDisabled == ~reentered

\* C9: after prepare_response has finished for a task, the store holds no
\* entry for its task id, whatever the result type.
C9_OptionsRemoved ==
  \A t \in TaskIds : task_status[t] = "prepared" => ~GetOptions(store, t).set

\* C10: the body of every store operation runs with the lock held by its
\* thread alone, the map holds for each task id what was last set for it and
\* not removed since, and get_options returns exactly that, whatever was done
\* to other task ids.
C10_StoreAtomicPerKey ==
  /\ \A t \in Threads : s_pc[t] \in {"body", "release"} => lock = t
  /\ \A t \in TaskIds : store[t] = last_set[t]
  /\ \A t \in Threads :
       (s_pc[t] = "release" /\ s_op[t].op = "get") => s_ret[t] = last_set[s_op[t].task]

\* get_options has returned the options set for one task id while another
\* thread waits for the lock with an operation on a different task id.
C10_Witness ==
  \E t, u \in Threads :
    /\ s_pc[t] = "release"
    /\ s_op[t].op = "get"
    /\ s_ret[t].set
    /\ s_pc[u] = "acquire"
    /\ s_op[u].op \in {"set", "remove"}
    /\ s_op[u].task # s_op[t].task

\* C11: a page whose image cannot be resolved (no image, a URI that is not a
\* data URI, a payload that does not decode) is skipped without an error:
\* the run moves to the next page with the document, the adapter and the
\* error state as they were, and the elements of such a page keep their
\* original value throughout the run.
UnresolvedKinds == {"none", "not_data_uri", "undecodable"}

UnresolvedPage(d, p) == p \in 1..Len(d.pages) /\ d.pages[p].image \in UnresolvedKinds

ElementsOfUnresolvedPagesKept ==
  /\ \A i \in 1..Len(doc0.texts) :
        (doc0.texts[i].prov # <<>> /\ UnresolvedPage(doc0, doc0.texts[i].prov[1].page_no))
          => doc.texts[i] = doc0.texts[i]
  /\ \A i \in 1..Len(doc0.tables) :
        (doc0.tables[i].prov # <<>> /\ UnresolvedPage(doc0, doc0.tables[i].prov[1].page_no))
          => doc.tables[i] = doc0.tables[i]

C11_UnresolvedPageSkipped ==
  [][/\ (pc = "page" /\ UnresolvedPage(doc, page_no))
          => /\ pc' = "page"
             /\ page_no' = page_no + 1
             /\ doc' = doc
             /\ raised' = raised
             /\ adapter' = adapter
     /\ (pc \in {"collect", "tables", "cells", "texts"})
          => ~UnresolvedPage(doc, page_no)
     /\ (pc \in Processing) => ElementsOfUnresolvedPagesKept]_vars

\* A run over DocB has skipped page 1, rewritten a cell of the table of
\* page 2, skipped pages 3 and 4 and reached the end of the pages.
C11_Witness ==
  /\ doc0 = DocB
  /\ pc = "page"
  /\ page_no = 5
  /\ ~raised
  /\ doc.tables[1].cells[1].text = TxRecognized
  /\ doc.texts[1] = doc0.texts[1]
  /\ doc.texts[3] = doc0.texts[3]

\* C12: while page p is processed only the table or text the loop stands at
\* is changed, and only if its first provenance record names page p; every
\* element of another page or without provenance stays as it is.  The page
\* number never goes back and within a page the loops only advance, so an
\* element is handled during at most one page of a run.
FirstProvOn(item, p) == item.prov # <<>> /\ item.prov[1].page_no = p

PhaseRank(p) ==
  CASE p = "process" -> 0
    [] p = "page" -> 0
    [] p = "collect" -> 1
    [] p = "tables" -> 2
    [] p = "cells" -> 2
    [] p = "texts" -> 3
    [] OTHER -> 4

C12_OnlyCurrentPageTouched ==
  [][(pc \in Processing /\ pc' \in Processing) =>
       /\ \A i \in 1..Len(doc.texts) :
             doc'.texts[i] # doc.texts[i]
               => /\ pc = "texts" /\ text_idx = i /\ text_idx' = i + 1
                  /\ FirstProvOn(doc.texts[i], page_no)
       /\ \A i \in 1..Len(doc.tables) :
             doc'.tables[i] # doc.tables[i]
               => /\ pc \in {"tables", "cells"} /\ table_idx = i
                  /\ FirstProvOn(doc.tables[i], page_no)
       /\ page_no' \in {page_no, page_no + 1}
       /\ page_no' = page_no + 1 => (pc' = "page" /\ pc \in {"page", "texts"})
       /\ page_no' = page_no => PhaseRank(pc') >= PhaseRank(pc)
       /\ (pc = "texts" /\ pc' = "texts") => text_idx' = text_idx + 1
       /\ (pc = "tables" /\ pc' = "tables") => table_idx' = table_idx + 1
       /\ (pc = "cells" /\ pc' = "tables") => table_idx' = table_idx + 1
       /\ (pc = "tables" /\ pc' = "cells") => (table_idx' = table_idx /\ cell_idx' = 1)
       /\ (pc = "cells" /\ pc' = "cells")
            => (table_idx' = table_idx /\ cell_idx' = cell_idx + 1)]_vars

\* On page 2 of DocB, with the encoding check on, a garbled cell of the
\* table of page 2 has been rewritten and the text loop has passed the
\* garbled text of page 3 and left it alone.
C12_Witness ==
  /\ doc0 = DocB
  /\ page_no = 2
  /\ pc = "texts"
  /\ text_idx = 4
  /\ flags.encoding
  /\ doc.texts[3] = doc0.texts[3]
  /\ doc.tables[1].cells[1].text = TxRecognized

\* C13: a run never creates, deletes or reorders elements: pages, pictures,
\* form items and key-value items are as handed in, texts and tables keep
\* their number, order and provenance, and every table keeps its cells in
\* number and order with the same (row, col) indices.
SameMembers(now, before) ==
  /\ now.pages = before.pages
  /\ now.pictures = before.pictures
  /\ now.form_items = before.form_items
  /\ now.key_value_items = before.key_value_items
  /\ Len(now.texts) = Len(before.texts)
  /\ \A i \in 1..Len(before.texts) : now.texts[i].prov = before.texts[i].prov
  /\ Len(now.tables) = Len(before.tables)
  /\ \A i \in 1..Len(before.tables) :
        /\ now.tables[i].prov = before.tables[i].prov
        /\ Len(now.tables[i].cells) = Len(before.tables[i].cells)
        /\ \A j \in 1..Len(before.tables[i].cells) :
              /\ now.tables[i].cells[j].row = before.tables[i].cells[j].row
              /\ now.tables[i].cells[j].col = before.tables[i].cells[j].col

C13_NoStructuralChange == SameMembers(doc, doc0)

\* process_conversion_result has returned for DocA with the bbox of cell
\* (0, 0) rewritten, cell (0, 1) as it was and a text replaced.
C13_Witness ==
  /\ doc0 = DocA
  /\ pc = "process_exit"
  /\ ~raised
  /\ doc.tables[1].cells[1].bbox # doc0.tables[1].cells[1].bbox
  /\ doc.tables[1].cells[2] = doc0.tables[1].cells[2]
  /\ doc.texts[1].text = TxRecognized

\* C14: a free text on the current page whose pixel box is covered for more
\* than 0.05 of its area by any one non-text box of the page is passed over:
\* the step changes neither the document nor the adapter (no model load is
\* attempted, the recognizer is not reached), whatever the analyzer says.
OccludedBy(boxA, boxB) ==
  LET w == Max(0, Min(boxA[3], boxB[3]) - Max(boxA[1], boxB[1]))
      h == Max(0, Min(boxA[4], boxB[4]) - Max(boxA[2], boxB[2]))
      a == (boxA[3] - boxA[1]) * (boxA[4] - boxA[2])
  IN a > 0 /\ 20 * (w * h) > a

CurrentTextOccluded ==
  /\ pc = "texts"
  /\ text_idx <= Len(doc.texts)
  /\ FirstProvOn(doc.texts[text_idx], page_no)
  /\ doc.texts[text_idx].prov[1].bbox.present
  /\ \E j \in 1..Len(non_text_bboxes) :
        OccludedBy(ProvPixelBBox(doc.texts[text_idx], doc.pages[page_no].width,
                                 doc.pages[page_no].height,
                                 page_image[1], page_image[2]),
                   non_text_bboxes[j])

C14_OccludedTextSkipped ==
  [][CurrentTextOccluded
       => /\ doc' = doc
          /\ adapter' = adapter
          /\ raised' = raised
          /\ pc' = "texts"
          /\ text_idx' = text_idx + 1]_vars

\* With the formula check on, the loop over DocA has passed the formula-like
\* text that lies on the table (and off the picture) and left it alone.
C14_Witness ==
  /\ doc0 = DocA
  /\ pc = "texts"
  /\ text_idx = 3
  /\ flags.formula
  /\ Len(non_text_bboxes) = 2
  /\ doc.texts[2] = doc0.texts[2]
  /\ doc.texts[2].text = TxFormula

\* C15: when the predictor has returned cells, the bbox of a document cell
\* is rewritten, from a predicted cell of the same (row, col), if and only
\* if the prediction holds such a cell; every other document cell is
\* returned as it was, and the cells keep their number and order, so a
\* predicted cell that matches no document cell has no effect.  Without a
\* prediction no cell is changed.
PredictionMade ==
  /\ fn = "enhance_table_structure"
  /\ fn_done
  /\ fn_out[1].models_loaded
  /\ fn_out[1].assigned
  /\ fn_in[7].kind = "cells"

C15_MatchedByRowAndCol ==
  (fn = "enhance_table_structure" /\ fn_done) =>
    LET cells == fn_in[2]
        pred == fn_in[7].cells
        out == fn_out[2]
        Names(k, j) == pred[k].row = cells[j].row /\ pred[k].col = cells[j].col
    IN IF PredictionMade
       THEN /\ Len(out) = Len(cells)
            /\ \A j \in 1..Len(cells) :
                  IF \E k \in 1..Len(pred) : Names(k, j)
                  THEN \E k \in 1..Len(pred) :
                         /\ Names(k, j)
                         /\ out[j] = [cells[j] EXCEPT !.bbox =
                                        UpdateCellBBox(pred[k].bbox, fn_in[3],
                                                       fn_in[4][1], fn_in[4][2],
                                                       fn_in[5], fn_in[6])]
                  ELSE out[j] = cells[j]
       ELSE out = cells

\* The prediction names the cells (0, 0) and (2, 2); of the cells (0, 0) and
\* (0, 1) of the table of DocA the first has a new bbox and the second is
\* as it was.
C15_Witness ==
  /\ PredictionMade
  /\ fn_in[2] = DocA.tables[1].cells
  /\ Len(fn_in[7].cells) = 2
  /\ fn_out[2][1].bbox # fn_in[2][1].bbox
  /\ fn_out[2][1].text = fn_in[2][1].text
  /\ fn_out[2][2] = fn_in[2][2]

\* C16 as stated: the call returns the lines above 0.5 joined by single
\* spaces, and the previous text only if no line is above 0.5.
LinesRecognized ==
  /\ fn = "extract_text_from_region"
  /\ fn_done
  /\ fn_out[1].models_loaded
  /\ fn_out[1].assigned
  /\ ~CropRaises(PadCrop(fn_in[3], fn_in[2][1], fn_in[2][2]))
  /\ fn_in[5].kind = "lines"

KeptTexts(lines) ==
  LET kept == SelectSeq(lines, LAMBDA ln : ln.conf > ConfThreshold)
  IN [i \in 1..Len(kept) |-> kept[i].text]

C16_JoinedOrPrevious ==
  LinesRecognized =>
    fn_out[2] = IF KeptTexts(fn_in[5].lines) = <<>>
                THEN fn_in[4]
                ELSE JoinSpace(KeptTexts(fn_in[5].lines))

\* C16, amended: the call returns the lines above 0.5 joined by single
\* spaces and stripped of leading and trailing whitespace, and the previous
\* text if that is empty; it returns the previous text also when the models
\* are not available, the crop fails or the recognizer raises.
C16_StrippedJoinOrPrevious ==
  (fn = "extract_text_from_region" /\ fn_done) =>
    IF LinesRecognized
    THEN LET joined == Strip(JoinSpace(KeptTexts(fn_in[5].lines)))
         IN fn_out[2] = IF joined = <<>> THEN fn_in[4] ELSE joined
    ELSE fn_out[2] = fn_in[4]

\* The recognizer returned an empty line and the line "y3", both above
\* 0.5: the call returns "y3", not " y3".
C16_Witness ==
  /\ LinesRecognized
  /\ Len(fn_in[5].lines) = 2
  /\ KeptTexts(fn_in[5].lines) = <<<<>>, TxRecognized>>
  /\ fn_out[2] = TxRecognized

\* C17: for origin TOPLEFT on a page rendered at its own size get_pixel_bbox
\* returns (l, t, r, b) for every integer box.
PixelBBoxReturned == fn = "get_pixel_bbox" /\ fn_done

C17_TopLeftIdentity ==
  (/\ PixelBBoxReturned
   /\ fn_in[1].origin = "TOPLEFT"
   /\ fn_in[2] = fn_in[4]
   /\ fn_in[3] = fn_in[5])
    => fn_out = <<fn_in[1].l, fn_in[1].t, fn_in[1].r, fn_in[1].b>>

\* C18: get_pixel_bbox returns the integer parts of v / pdf * img, v being
\* l and r (pdfW - r and pdfW - l for the right origins) on the X axis and
\* t and b (pdfH - t and pdfH - b for the bottom origins) on the Y axis of
\* the top and bottom origins, with no clamping; the box (0, 0, 100, 50) of
\* origin TOPRIGHT on a 200 x 100 page rendered at 200 x 100 gives
\* (100, 0, 200, 50).
IntegerPart(v, pdf, img) == Trunc(v * img, pdf)

C18_AxisRules ==
  PixelBBoxReturned =>
    LET bbox == fn_in[1]
        pdf_w == fn_in[2]
        pdf_h == fn_in[3]
        img_w == fn_in[4]
        img_h == fn_in[5]
    IN /\ bbox.origin \in {"TOPLEFT", "BOTTOMLEFT", "CENTER"}
            => /\ fn_out[1] = IntegerPart(bbox.l, pdf_w, img_w)
               /\ fn_out[3] = IntegerPart(bbox.r, pdf_w, img_w)
       /\ bbox.origin \in {"TOPRIGHT", "BOTTOMRIGHT"}
            => /\ fn_out[1] = IntegerPart(pdf_w - bbox.r, pdf_w, img_w)
               /\ fn_out[3] = IntegerPart(pdf_w - bbox.l, pdf_w, img_w)
       /\ bbox.origin \in {"TOPLEFT", "TOPRIGHT"}
            => /\ fn_out[2] = IntegerPart(bbox.t, pdf_h, img_h)
               /\ fn_out[4] = IntegerPart(bbox.b, pdf_h, img_h)
       /\ bbox.origin \in {"BOTTOMLEFT", "BOTTOMRIGHT"}
            => /\ fn_out[2] = IntegerPart(pdf_h - bbox.t, pdf_h, img_h)
               /\ fn_out[4] = IntegerPart(pdf_h - bbox.b, pdf_h, img_h)
       /\ (bbox = BBox(0, 0, 100, 50, "TOPRIGHT")
             /\ <<pdf_w, pdf_h, img_w, img_h>> = <<200, 100, 200, 100>>)
            => fn_out = <<100, 0, 200, 50>>

\* C19: the ratio calculate_overlap_ratio returns lies in [0, 1]: its
\* numerator, the intersection area, is neither negative nor above its
\* denominator; and it is 0 when the area of A is 0 and when no pixel lies
\* in both boxes.
OverlapReturned == fn = "calculate_overlap_ratio" /\ fn_done

PixelIn(box, x, y) ==
  box[1] <= x /\ x + 1 <= box[3] /\ box[2] <= y /\ y + 1 <= box[4]

CommonPixels(boxA, boxB) ==
  {px \in (0..(MaxPixel + 2)) \X (0..(MaxPixel + 2)) :
     PixelIn(boxA, px[1], px[2]) /\ PixelIn(boxB, px[1], px[2])}

C19_RatioInUnitInterval ==
  OverlapReturned =>
    /\ fn_out[2] > 0
    /\ 0 <= fn_out[1]
    /\ fn_out[1] <= fn_out[2]
    /\ (fn_in[1][3] - fn_in[1][1]) * (fn_in[1][4] - fn_in[1][2]) = 0
         => fn_out[1] = 0
    /\ CommonPixels(fn_in[1], fn_in[2]) = {} => fn_out[1] = 0

\* A is covered in part: the ratio is strictly between 0 and 1.
C19_Witness ==
  /\ OverlapReturned
  /\ 0 < fn_out[1]
  /\ fn_out[1] < fn_out[2]
  /\ CommonPixels(fn_in[1], fn_in[2]) # {}

\* C20: the ratio of a box with itself is 1 whenever the product
\* (x2 - x1) * (y2 - y1) is positive.
C20_SelfRatioOne ==
  (/\ OverlapReturned
   /\ fn_in[1] = fn_in[2]
   /\ (fn_in[1][3] - fn_in[1][1]) * (fn_in[1][4] - fn_in[1][2]) > 0)
    => fn_out[1] = fn_out[2]

\* C21: the bbox update_cell_bbox stores is the predicted cell box moved by
\* the left upper pixel corner of the table, scaled by pdf / img on each
\* axis, and drawn in by 4 document units on each edge; its origin is
\* TOPLEFT.  A bbox rewritten by the structure correction has origin
\* TOPLEFT whatever the origin of the cell was.
CellBBoxStored == fn = "update_cell_bbox" /\ fn_done

C21_InverseMappedAndShrunk ==
  /\ CellBBoxStored =>
       LET cb == fn_in[1]
           tb == fn_in[2]
           img_w == fn_in[3]
           img_h == fn_in[4]
           pdf_w == fn_in[5]
           pdf_h == fn_in[6]
       IN /\ (fn_out.l - 4) * img_w = (tb[1] + cb[1]) * pdf_w
          /\ (fn_out.t - 4) * img_h = (tb[2] + cb[2]) * pdf_h
          /\ (fn_out.r + 4) * img_w = (tb[1] + cb[3]) * pdf_w
          /\ (fn_out.b + 4) * img_h = (tb[2] + cb[4]) * pdf_h
          /\ fn_out.origin = "TOPLEFT"
          /\ fn_out.present
  /\ PredictionMade =>
       \A j \in 1..Len(fn_in[2]) :
         fn_out[2][j].bbox # fn_in[2][j].bbox => fn_out[2][j].bbox.origin = "TOPLEFT"

\* A cell box 12 pixels wide at (1, 2) of a table at (8, 4), on a page
\* twice as large as its image: the stored bbox is (22, 16, 38, 32).
C21_Witness ==
  /\ CellBBoxStored
  /\ fn_in = <<<<1, 2, 13, 14>>, <<8, 4, 24, 12>>, 32, 16, 64, 32>>
  /\ fn_out = BBox(22, 16, 38, 32, "TOPLEFT")

\* needs_ocr_enhancement has returned.
Analyzed == fn = "needs_ocr_enhancement" /\ fn_done

OnlyChars(text, set) == \A i \in 1..Len(text) : text[i] \in set

\* The ASCII characters among the texts analyzed.
AsciiChars == {"a", "2", Space, Nul}

\* C22 as stated: with the encoding check on, a text that holds the
\* replacement character is flagged, and a text of ASCII characters only,
\* or of accepted-script characters only, is not.
C22_ReplacementFlaggedAsciiNot ==
  (Analyzed /\ fn_in[3]) =>
    /\ (\E i \in 1..Len(fn_in[1]) : fn_in[1][i] = ReplacementChar) => fn_out.encoding
    /\ (OnlyChars(fn_in[1], AsciiChars) \/ OnlyChars(fn_in[1], {EAcute}))
         => ~fn_out.encoding

\* C22, amended: with the encoding check on, a text that is not blank is
\* flagged exactly if it holds the replacement character, NULL (or SUB, or
\* one of the two private-use error characters), or a non-ASCII character
\* whose name holds none of ARABIC, LATIN, MATHEMATICAL; so an ASCII text
\* is not flagged unless it holds NULL or SUB.
C22_EncodingFlag ==
  (Analyzed /\ fn_in[3]) =>
    LET text == fn_in[1]
        blank == OnlyChars(text, {Space})
        bad == {ReplacementChar, Nul, SuperTwo}
    IN /\ fn_out.encoding = (~blank /\ \E i \in 1..Len(text) : text[i] \in bad)
       /\ (\E i \in 1..Len(text) : text[i] = ReplacementChar) => fn_out.encoding
       /\ OnlyChars(text, {"a", "2", Space, EAcute}) => ~fn_out.encoding

\* The text "a" followed by NULL, all ASCII, is flagged.
C22_Witness ==
  /\ Analyzed
  /\ fn_in[3]
  /\ fn_in[1] = <<"a", Nul>>
  /\ fn_out.encoding

\* C23: formula is true exactly if the formula check is on, the text is
\* not blank, and the text holds a decimal digit and a Latin letter; a
\* blank text gives both flags false and a check that is off gives its flag
\* false.
C23_FormulaFlag ==
  Analyzed =>
    LET text == fn_in[1]
        blank == OnlyChars(text, {Space})
    IN /\ fn_out.formula =
            (/\ fn_in[2]
             /\ ~blank
             /\ \E i \in 1..Len(text) : text[i] = "2"
             /\ \E i \in 1..Len(text) : text[i] \in {"a", EAcute})
       /\ blank => (~fn_out.encoding /\ ~fn_out.formula)
       /\ ~fn_in[2] => ~fn_out.formula
       /\ ~fn_in[3] => ~fn_out.encoding

\* The steps a page takes: Start is "page", ImageResolved "collect",
\* NonTextIndexed "tables" and "cells", TablesProcessed "texts", and the
\* page is Done when the page loop is back at "page" with the next number.
PageSteps ==
  {<<"page", "page">>, <<"page", "collect">>, <<"page", "process_exit">>,
   <<"collect", "tables">>, <<"collect", "process_exit">>,
   <<"tables", "tables">>, <<"tables", "cells">>, <<"tables", "texts">>,
   <<"tables", "process_exit">>,
   <<"cells", "cells">>, <<"cells", "tables">>, <<"cells", "process_exit">>,
   <<"texts", "texts">>, <<"texts", "page">>, <<"texts", "process_exit">>}

InPage == {"collect", "tables", "cells", "texts"}

\* C24: a page whose image resolves takes its steps in the order Start,
\* ImageResolved, NonTextIndexed, TablesProcessed, TextProcessed, Done.  The
\* occlusion list is built once, before the first table, and stays as built
\* to the end of the page; a table's structure is corrected before its
\* cells are read; the text loop starts only when the table loop has
\* passed every table; and the page number moves only when the page is
\* Done or skipped.
C24_PageStateOrder ==
  [][(pc \in {"page"} \cup InPage) =>
       /\ <<pc, pc'>> \in PageSteps
       /\ (pc = "page" /\ pc' = "collect")
            => (ImageResolves(doc.pages[page_no]) /\ page_no' = page_no)
       /\ (pc = "collect" /\ pc' = "tables")
            => /\ Len(non_text_bboxes') = Len(SelectOnPage(NonTextItems(doc), page_no))
               /\ table_idx' = 1
               /\ doc' = doc
       /\ (pc \in InPage \ {"collect"} /\ pc' \in InPage)
            => (non_text_bboxes' = non_text_bboxes /\ page_no' = page_no
                /\ page_image' = page_image)
       /\ (pc = "tables" /\ pc' = "cells")
            => \A i \in 1..Len(doc.tables) : \A j \in 1..Len(doc.tables[i].cells) :
                  doc'.tables[i].cells[j].text = doc.tables[i].cells[j].text
       /\ pc = "cells"
            => \A i \in 1..Len(doc.tables) : \A j \in 1..Len(doc.tables[i].cells) :
                  doc'.tables[i].cells[j].bbox = doc.tables[i].cells[j].bbox
       /\ (pc = "cells" /\ pc' = "tables") => cell_idx > Len(doc.tables[table_idx].cells)
       /\ (pc = "tables" /\ pc' = "texts")
            => (table_idx > Len(doc.tables) /\ text_idx' = 1 /\ doc' = doc)
       /\ pc = "texts"
            => (table_idx > Len(doc.tables) /\ doc'.tables = doc.tables)
       /\ (pc = "texts" /\ pc' = "page")
            => (text_idx > Len(doc.texts) /\ page_no' = page_no + 1 /\ doc' = doc)
       /\ (pc = "page" /\ pc' = "page")
            => (~ImageResolves(doc.pages[page_no]) /\ page_no' = page_no + 1)
       /\ (pc = "page" /\ pc' = "process_exit") => page_no > NumPages(doc)]_vars

\* Page 2 of DocB is Done, a cell of its table rewritten on the way, and
\* the page loop stands at page 3.
C24_Witness ==
  /\ doc0 = DocB
  /\ pc = "page"
  /\ page_no = 3
  /\ ~raised
  /\ doc.tables[1].cells[1].text = TxRecognized

\* C25: while every external call returns, process_conversion_result comes
\* to its end, and every page the page loop starts on reaches Done (the
\* loop moves on to the next page number in the same run), processed or
\* skipped.
C25_EveryPageReachesDone ==
  /\ (pc = "process") ~> (pc = "process_exit")
  /\ \A d \in Documents : \A p \in 1..NumPages(d) : \A r \in 0..MaxRuns :
        (pc = "page" /\ doc0 = d /\ page_no = p /\ runs = r)
          ~> (pc = "page" /\ doc0 = d /\ page_no = p + 1 /\ runs = r)

\* extract_text_from_region has computed its crop rectangle.
CropComputed ==
  /\ fn = "extract_text_from_region"
  /\ fn_done
  /\ fn_out[1].models_loaded

\* C26: the rectangle cropped for region recognition is the pixel box
\* widened by 5 pixels on each side and clamped to the image, so that
\* 0 <= left <= right <= W and 0 <= top <= bottom <= H; the crop is
\* pasted centred (to the pixel) on a canvas of twice its width and twice
\* its height.
C26_CropWithinImage ==
  CropComputed =>
    LET crop == fn_out[3]
        W == fn_in[2][1]
        H == fn_in[2][2]
    IN /\ 0 <= crop[1] /\ crop[1] <= crop[3] /\ crop[3] <= W
       /\ 0 <= crop[2] /\ crop[2] <= crop[4] /\ crop[4] <= H
       /\ fn_out[4] # <<>> =>
            /\ fn_out[4][1] = 2 * (crop[3] - crop[1])
            /\ fn_out[4][2] = 2 * (crop[4] - crop[2])
            /\ fn_out[4][1] - (crop[3] - crop[1]) - 2 * fn_out[4][3] \in {0, 1}
            /\ fn_out[4][2] - (crop[4] - crop[2]) - 2 * fn_out[4][4] \in {0, 1}

\* C27: for a predicted cell box with cx1 <= cx2 and cy1 <= cy2, the bbox
\* update_cell_bbox stores has l <= r and t <= b after the shrink by 4.
C27_StoredBBoxWellFormed ==
  (CellBBoxStored /\ fn_in[1][1] <= fn_in[1][3] /\ fn_in[1][2] <= fn_in[1][4]) =>
    (fn_out.l <= fn_out.r /\ fn_out.t <= fn_out.b)

\* C28: in exact arithmetic get_pixel_bbox returns for a box of origin
\* CENTER the pixel box it returns for the same edges with origin
\* BOTTOMLEFT: X by the left-origin rule, and (cy - t) / pdfH * imgH +
\* imgH / 2 with cy = pdfH / 2 is (pdfH - t) / pdfH * imgH.
C28_CenterAsBottomLeft ==
  (PixelBBoxReturned /\ fn_in[1].origin = "CENTER") =>
    /\ fn_out = GetPixelBBox(fn_in[1], "BOTTOMLEFT", fn_in[2], fn_in[3], fn_in[4],
                             fn_in[5])
    /\ fn_out[1] = IntegerPart(fn_in[1].l, fn_in[2], fn_in[4])
    /\ fn_out[3] = IntegerPart(fn_in[1].r, fn_in[2], fn_in[4])

\* The box (0, 0, 4, 2) of origin CENTER on a 64 x 32 page rendered at
\* 32 x 16 gives (0, 16, 2, 15).
C28_Witness ==
  /\ PixelBBoxReturned
  /\ fn_in = <<BBox(0, 0, 4, 2, "CENTER"), 64, 32, 32, 16>>
  /\ fn_out = <<0, 16, 2, 15>>

\* The document with the three written fields put back: the text of its
\* texts, and the text and the bbox of its table cells.
WrittenFieldsRestored(now, before) ==
  [now EXCEPT
     !.texts = [i \in 1..Len(now.texts) |->
                  [now.texts[i] EXCEPT !.text = before.texts[i].text]],
     !.tables = [i \in 1..Len(now.tables) |->
                   [now.tables[i] EXCEPT !.cells =
                      [j \in 1..Len(now.tables[i].cells) |->
                         [now.tables[i].cells[j] EXCEPT
                            !.text = before.tables[i].cells[j].text,
                            !.bbox = before.tables[i].cells[j].bbox]]]]]

\* C29: a run writes only the text of Text elements, the text of table
\* cells and the bbox of table cells: with those fields put back the
\* document is the document handed in, so provenance, row and column
\* indices, page sizes and images are as they were; and a cell bbox that
\* differs from the one handed in is one update_cell_bbox has written.
C29_OnlyTextAndCellBBoxWritten ==
  /\ Len(doc.texts) = Len(doc0.texts)
  /\ Len(doc.tables) = Len(doc0.tables)
  /\ \A i \in 1..Len(doc0.tables) :
        Len(doc.tables[i].cells) = Len(doc0.tables[i].cells)
  /\ WrittenFieldsRestored(doc, doc0) = doc0
  /\ \A i \in 1..Len(doc0.tables) : \A j \in 1..Len(doc0.tables[i].cells) :
        doc.tables[i].cells[j].bbox # doc0.tables[i].cells[j].bbox
          => /\ doc.tables[i].cells[j].bbox.origin = "TOPLEFT"
             /\ doc.tables[i].cells[j].bbox.present

\* process_conversion_result has returned for DocA with all three fields
\* written: the first text, the text of cell (0, 0) and the bbox of cell
\* (0, 0).
C29_Witness ==
  /\ doc0 = DocA
  /\ pc = "process_exit"
  /\ ~raised
  /\ doc.texts[1].text = TxRecognized
  /\ doc.tables[1].cells[1].text = TxRecognized
  /\ doc.tables[1].cells[1].bbox # doc0.tables[1].cells[1].bbox

\* The thread has passed the readiness check of extract_text_from_region or
\* enhance_table_structure and has not returned yet.
PastReadyCheck(t) ==
  /\ top[t] # "property"
  /\ \/ tpc[t] \in {"prop1", "prop2", "invoke"}
     \/ tpc[t] # "idle" /\ tret[t] \in {"prop2", "invoke"}

\* C30: under every interleaving of the callers of one adapter,
\* _models_loaded holds only when the predictors have been assigned from
\* the load result, so a caller that has passed the readiness check is
\* never handed an unassigned predictor; and when no caller is inside an
\* initialization attempt, _models_loading is false.
C30_LoadedImpliesAssigned ==
  /\ adapter.models_loaded => adapter.assigned
  /\ \A t \in Threads : PastReadyCheck(t) => adapter.assigned
  /\ (\A t \in Threads : tpc[t] \notin Initializing \cup {"set_loading"})
       => ~adapter.models_loading

\* A caller of extract_text_from_region is about to invoke the recognizer
\* after another caller's failed attempt has cleared _models_loaded: the
\* predictors are the ones the first attempt assigned.
C30_Witness ==
  /\ \E t \in Threads : tpc[t] = "invoke" /\ top[t] = "extract"
  /\ adapter.assigned
  /\ ~adapter.models_loaded
  /\ failed_settled

====
